---------------------------- MODULE Spec2Model ----------------------------
(***************************************************************************)
(* A model of scmdata's metadata filters (src/src/scmdata/filters.py).     *)
(*                                                                         *)
(* Strings are sequences of one-character strings, so that str.replace,    *)
(* the construction of the pseudo regexp and the matching done by          *)
(* re.compile(...).match(...) are computed character by character.         *)
(***************************************************************************)
EXTENDS Integers, Sequences, FiniteSets, TLC

(***************************************************************************)
(* Characters.                                                             *)
(***************************************************************************)
NL == "\n"
BS == "\\"
\* chr(7), which "\a" stands for in a pattern; no label of the model holds it.
BEL == "BEL"

\* str.isalnum() or "_" on one character: the word characters of the re module.
WordChars ==
    {"a", "b", "c", "d", "x", "_", "0", "1", "2", "3", "4", "5", "6", "7", "8", "9"}

\* filters.py:17
HIERARCHY_SEPARATOR == <<"|">>

(***************************************************************************)
(* str helpers.                                                            *)
(***************************************************************************)
\* s[i:] of Python, i counted from 0.
Drop(s, i) == SubSeq(s, i + 1, Len(s))

\* s.startswith(old, i), i counted from 0.
StartsWithAt(s, old, i) ==
    /\ i + Len(old) <= Len(s)
    /\ \A k \in 1..Len(old) : s[i + k] = old[k]

RECURSIVE StrReplaceFrom(_, _, _, _)
\* str.replace(old, new) for a non-empty old, scanning from offset i: the
\* leftmost occurrence is replaced and the scan resumes after it.
StrReplaceFrom(s, old, new, i) ==
    IF i >= Len(s) THEN <<>>
    ELSE IF StartsWithAt(s, old, i)
         THEN new \o StrReplaceFrom(s, old, new, i + Len(old))
         ELSE <<s[i + 1]>> \o StrReplaceFrom(s, old, new, i + 1)

RECURSIVE Interleave(_, _, _)
\* str.replace("", new): new is put before every character and at the end.
Interleave(s, new, i) ==
    IF i >= Len(s) THEN new
    ELSE new \o <<s[i + 1]>> \o Interleave(s, new, i + 1)

\* str.replace(old, new)
StrReplace(s, old, new) ==
    IF old = <<>> THEN Interleave(s, new, 0) ELSE StrReplaceFrom(s, old, new, 0)

RECURSIVE CountFrom(_, _, _)
\* len(re.compile(re.escape(sep)).findall(s)): the non-overlapping occurrences
\* of the literal sep in s, found left to right.  An empty sep matches at
\* every position, the end included.
CountFrom(s, sep, i) ==
    IF sep = <<>> THEN Len(s) + 1
    ELSE IF i >= Len(s) THEN 0
    ELSE IF StartsWithAt(s, sep, i) THEN 1 + CountFrom(s, sep, i + Len(sep))
    ELSE CountFrom(s, sep, i + 1)

(***************************************************************************)
(* The re module, as far as the patterns built here use it: literals,      *)
(* escapes, ".", "^", "$", groups, "|" and the repeats "*", "+", "?" with  *)
(* their lazy forms.  A parse gives [err, node, pos]; err is "" when the   *)
(* pattern compiles and otherwise the message of re.error.                 *)
(***************************************************************************)
Node(t, c, a) == [t |-> t, c |-> c, a |-> a]

IsRepeatChar(c) == c \in {"*", "+", "?"}

\* sre_parse._escape: the item an escape "\c" stands for.  PseudoRegexp
\* puts a backslash only before "|", ".", "+", "(", ")", "$" and "^"; of the
\* escapes of letters, "\a", "\b" and "\d" are given their meaning and the
\* other letters and the digits are taken as re.error (a bad escape, or a
\* reference to a group that does not exist).
EscapeNode(c) ==
    IF c = "b" THEN Node("wb", "", <<>>)
    ELSE IF c = "d" THEN Node("digit", "", <<>>)
    ELSE IF c = "a" THEN Node("lit", BEL, <<>>)
    ELSE Node("lit", c, <<>>)

BadEscape(c) == c \in (WordChars \ {"a", "b", "d", "_"})

RECURSIVE ParseSub(_, _, _)
RECURSIVE ParseSeq(_, _, _, _)

\* sre_parse._parse: the items of one branch, from offset i, up to "|", ")"
\* or the end of the pattern.  items are the items parsed so far.
ParseSeq(p, i, items, nested) ==
    IF i >= Len(p) \/ p[i + 1] \in {"|", ")"}
    THEN [err |-> "", node |-> Node("cat", "", items), pos |-> i]
    ELSE
    LET c == p[i + 1] IN
    IF c = BS THEN
        IF i + 1 >= Len(p)
        THEN [err |-> "bad escape (end of pattern)", node |-> Node("cat", "", <<>>), pos |-> i]
        ELSE IF BadEscape(p[i + 2])
        THEN [err |-> "bad escape", node |-> Node("cat", "", <<>>), pos |-> i]
        ELSE ParseSeq(p, i + 2, Append(items, EscapeNode(p[i + 2])), nested)
    ELSE IF IsRepeatChar(c) THEN
        IF items = <<>> \/ items[Len(items)].t \in {"bol", "eol", "wb"}
        THEN [err |-> "nothing to repeat", node |-> Node("cat", "", <<>>), pos |-> i]
        ELSE IF items[Len(items)].t = "rep"
        THEN [err |-> "multiple repeat", node |-> Node("cat", "", <<>>), pos |-> i]
        ELSE
        LET item == items[Len(items)]
            rep == Node("rep", c, <<item>>)
            lazy == i + 1 < Len(p) /\ p[i + 2] = "?"
        IN  ParseSeq(p, IF lazy THEN i + 2 ELSE i + 1,
                     [items EXCEPT ![Len(items)] = rep], nested)
    ELSE IF c = "." THEN ParseSeq(p, i + 1, Append(items, Node("any", "", <<>>)), nested)
    ELSE IF c = "^" THEN ParseSeq(p, i + 1, Append(items, Node("bol", "", <<>>)), nested)
    ELSE IF c = "$" THEN ParseSeq(p, i + 1, Append(items, Node("eol", "", <<>>)), nested)
    ELSE IF c = "(" THEN
        IF i + 1 < Len(p) /\ p[i + 2] = "?"
        THEN [err |-> "unknown extension", node |-> Node("cat", "", <<>>), pos |-> i]
        ELSE
        LET g == ParseSub(p, i + 1, TRUE) IN
        IF g.err # "" THEN g
        ELSE IF g.pos >= Len(p) \/ p[g.pos + 1] # ")"
        THEN [err |-> "missing ), unterminated subpattern",
              node |-> Node("cat", "", <<>>), pos |-> i]
        ELSE ParseSeq(p, g.pos + 1, Append(items, Node("grp", "", <<g.node>>)), nested)
    ELSE ParseSeq(p, i + 1, Append(items, Node("lit", c, <<>>)), nested)

RECURSIVE ParseBranches(_, _, _, _)
\* sre_parse._parse_sub: the branches separated by "|".
ParseBranches(p, i, branches, nested) ==
    LET b == ParseSeq(p, i, <<>>, nested) IN
    IF b.err # "" THEN b
    ELSE IF b.pos < Len(p) /\ p[b.pos + 1] = "|"
    THEN ParseBranches(p, b.pos + 1, Append(branches, b.node), nested)
    ELSE [err |-> "", node |-> Node("alt", "", Append(branches, b.node)), pos |-> b.pos]

ParseSub(p, i, nested) == ParseBranches(p, i, <<>>, nested)

\* sre_parse.parse: the whole pattern; a ")" left over is an error.
Compile(p) ==
    LET r == ParseSub(p, 0, FALSE) IN
    IF r.err # "" THEN r
    ELSE IF r.pos < Len(p)
    THEN [err |-> "unbalanced parenthesis", node |-> Node("cat", "", <<>>), pos |-> r.pos]
    ELSE r

Digits09 == {"0", "1", "2", "3", "4", "5", "6", "7", "8", "9"}

IsWord(s, k) == k >= 1 /\ k <= Len(s) /\ s[k] \in WordChars

RECURSIVE Ends(_, _, _)
RECURSIVE EndsCat(_, _, _, _)
RECURSIVE Closure(_, _, _)

\* The offsets at which a match of node x can end when it starts at one of
\* the offsets P of s.  Without flags: "." is any character but a line
\* break, "^" is the start of s, "$" is the end of s or the place before a
\* line break that ends s.
Ends(x, s, P) ==
    IF P = {} THEN {}
    ELSE IF x.t = "lit" THEN {q + 1 : q \in {q \in P : q < Len(s) /\ s[q + 1] = x.c}}
    ELSE IF x.t = "any" THEN {q + 1 : q \in {q \in P : q < Len(s) /\ s[q + 1] # NL}}
    ELSE IF x.t = "bol" THEN {q \in P : q = 0}
    ELSE IF x.t = "eol"
         THEN {q \in P : q = Len(s) \/ (q = Len(s) - 1 /\ s[Len(s)] = NL)}
    ELSE IF x.t = "digit"
         THEN {q + 1 : q \in {q \in P : q < Len(s) /\ s[q + 1] \in Digits09}}
    ELSE IF x.t = "wb" THEN {q \in P : IsWord(s, q) # IsWord(s, q + 1)}
    ELSE IF x.t = "cat" THEN EndsCat(x.a, 1, s, P)
    ELSE IF x.t = "alt" THEN UNION {Ends(x.a[k], s, P) : k \in 1..Len(x.a)}
    ELSE IF x.t = "grp" THEN Ends(x.a[1], s, P)
    ELSE \* rep
        IF x.c = "?" THEN P \cup Ends(x.a[1], s, P)
        ELSE IF x.c = "*" THEN Closure(x.a[1], s, P)
        ELSE Closure(x.a[1], s, Ends(x.a[1], s, P))

EndsCat(items, k, s, P) ==
    IF k > Len(items) THEN P ELSE EndsCat(items, k + 1, s, Ends(items[k], s, P))

\* Zero or more repetitions of x from the offsets P.
Closure(x, s, P) ==
    LET Q == P \cup Ends(x, s, P) IN
    IF Q = P THEN P ELSE Closure(x, s, Q)

\* bool(pattern.match(s)): a match that starts at the first character.
ReMatch(compiled, s) == Ends(compiled.node, s, {0}) # {}

\* filters.py:175-185, the chain of str.replace calls in its order, and the
\* "$" put at the end.
PseudoRegexp(s) ==
    LET r1 == StrReplace(s, <<"|">>, <<BS, "|">>)
        r2 == StrReplace(r1, <<".">>, <<BS, ".">>)
        r3 == StrReplace(r2, <<"*">>, <<".", "*">>)
        r4 == StrReplace(r3, <<"+">>, <<BS, "+">>)
        r5 == StrReplace(r4, <<"(">>, <<BS, "(">>)
        r6 == StrReplace(r5, <<")">>, <<BS, ")">>)
        r7 == StrReplace(r6, <<"$">>, <<BS, "$">>)
        r8 == StrReplace(r7, <<"^">>, <<BS, "^">>)
    IN  r8 \o <<"$">>

(***************************************************************************)
(* Metadata values.  A spec and a category label are a str (k = "str", its *)
(* characters in s), an int or a float (its value in v, counted in         *)
(* millionths) or, for a spec only, NaN.                                   *)
(***************************************************************************)
Scale == 1000 * 1000

StrVal(s) == [k |-> "str", s |-> s, v |-> 0]
IntVal(n) == [k |-> "int", s |-> <<>>, v |-> n * Scale]
FloatVal(n) == [k |-> "float", s |-> <<>>, v |-> n]
NaN == [k |-> "nan", s |-> <<>>, v |-> 0]

IsStr(x) == x.k = "str"

Digit(d) == <<"0", "1", "2", "3", "4", "5", "6", "7", "8", "9">>[d + 1]

RECURSIVE Digits(_)
\* str(n) for an int n >= 0
Digits(n) == IF n < 10 THEN <<Digit(n)>> ELSE Digits(n \div 10) \o <<Digit(n % 10)>>

RECURSIVE FracDigits(_, _)
\* The decimals of a fraction f of w digits, without the zeros that end it.
FracDigits(f, w) ==
    IF f = 0 THEN <<>>
    ELSE IF f % 10 = 0 THEN FracDigits(f \div 10, w - 1)
    ELSE IF w = 1 THEN <<Digit(f)>>
    ELSE FracDigits(f \div 10, w - 1) \o <<Digit(f % 10)>>

\* str(x): a str is itself, an int its digits, a float (>= 1, six decimals at
\* most) its shortest repr, which always shows one decimal.
Str(x) ==
    IF x.k = "str" THEN x.s
    ELSE IF x.k = "int" THEN Digits(x.v \div Scale)
    ELSE IF x.k = "float"
    THEN LET f == FracDigits(x.v % Scale, 6) IN
         Digits(x.v \div Scale) \o <<".">> \o (IF f = <<>> THEN <<"0">> ELSE f)
    ELSE <<"n", "a", "n">>

(***************************************************************************)
(* A level is None, an int or a str.                                       *)
(***************************************************************************)
NoLevel == [k |-> "none", n |-> 0, s |-> <<>>]
IntLevel(n) == [k |-> "int", n |-> n, s |-> <<>>]
StrLevel(s) == [k |-> "str", n |-> 0, s |-> s]

DigitValue(c) == CHOOSE d \in 0..9 : Digit(d) = c
IsDigit(c) == c \in {Digit(d) : d \in 0..9}

RECURSIVE DigitsValue(_, _)
DigitsValue(s, acc) ==
    IF s = <<>> THEN acc ELSE DigitsValue(Tail(s), 10 * acc + DigitValue(Head(s)))

\* int(s): an optional sign and at least one digit; anything else raises
\* ValueError.
PyInt(s) ==
    LET signed == s # <<>> /\ Head(s) \in {"+", "-"}
        ds == IF signed THEN Tail(s) ELSE s
    IN  IF ds = <<>> \/ \E k \in 1..Len(ds) : ~IsDigit(ds[k])
        THEN [err |-> "ValueError", n |-> 0]
        ELSE [err |-> "",
              n |-> IF signed /\ Head(s) = "-" THEN 0 - DigitsValue(ds, 0)
                    ELSE DigitsValue(ds, 0)]

(***************************************************************************)
(* find_depth                                                              *)
(***************************************************************************)
\* filters.py:78-97: the test that level stands for, [err, op, n], where the
\* test of a depth x is  n = x ("eq"),  n >= x ("ge")  or  n <= x ("le").
LevelTest(lvl) ==
    IF lvl.k # "str" THEN [err |-> "", op |-> "eq", n |-> lvl.n]
    ELSE IF lvl.s = <<>> THEN [err |-> "IndexError", op |-> "", n |-> 0]
    ELSE
    LET last == lvl.s[Len(lvl.s)]
        num == PyInt(SubSeq(lvl.s, 1, Len(lvl.s) - 1))
    IN  IF last = "-" THEN [err |-> num.err, op |-> "ge", n |-> num.n]
        ELSE IF last = "+" THEN [err |-> num.err, op |-> "le", n |-> num.n]
        ELSE [err |-> "ValueError", op |-> "", n |-> 0]

\* Test with the tests of "N-" and "N+" taken for one another.
TestSwapped(t, d) ==
    IF t.op = "eq" THEN t.n = d
    ELSE IF t.op = "ge" THEN t.n <= d
    ELSE t.n >= d

\* test(x) of find_depth
Test(t, d) ==
    IF t.op = "eq" THEN t.n = d
    ELSE IF t.op = "ge" THEN t.n >= d
    ELSE t.n <= d

\* Depth without the removal of the text of the spec: the separators of val.
DepthOfWholeLabel(val, s, sep) == CountFrom(val, sep, 0)

\* filters.py:100-104: len(pipe.findall(val.replace(regexp, ""))), where
\* regexp is str(s).replace("*", "").
Depth(val, s, sep) ==
    CountFrom(StrReplace(val, StrReplace(s, <<"*">>, <<>>), <<>>), sep, 0)

\* filters.py:42-106: the categories that pass the test of the level.  A
\* category that is not a str has no replace method (AttributeError).
FindDepth(col, s, lvl, sep) ==
    LET t == LevelTest(lvl) IN
    IF t.err # "" THEN [err |-> t.err, list |-> {}]
    ELSE IF \E k \in 1..Len(col.categories) : ~IsStr(col.categories[k])
    THEN [err |-> "AttributeError", list |-> {}]
    ELSE [err |-> "",
          list |-> {col.categories[k] : k \in
                     {k \in 1..Len(col.categories) :
                        Test(t, Depth(col.categories[k].s, s, sep))}}]

(***************************************************************************)
(* pattern_match                                                           *)
(***************************************************************************)
\* ComparisonValue without the change of "" into NaN.
ComparisonValueAsGiven(s) == s

\* filters.py:162-164
ComparisonValue(s) == IF IsStr(s) /\ s.s = <<>> THEN NaN ELSE s

\* pd.api.types.is_string_dtype(meta_col.categories.dtype)
IsStringDtype(col) == col.dtype = "str"

\* UseStringComparison without the test of the dtype of the categories.
UseStringForStrOnly(cv, col) == IsStr(cv)

\* filters.py:166-169
UseStringComparison(cv, col) ==
    IsStr(cv) \/ (cv.k # "nan" /\ IsStringDtype(col))

\* IsBareStar without the shortcut: "*" goes through re like any spec.
NoBareStar(cv, re, lvl) == FALSE

\* filters.py:172
IsBareStar(cv, re, lvl) == ~re /\ cv = StrVal(<<"*">>) /\ lvl.k = "none"

\* PatternSource that builds the pseudo regexp whatever regexp is.
PatternSourcePseudo(s, cv, re) == PseudoRegexp(Str(s))

\* filters.py:186: what is handed to re.compile
PatternSource(s, cv, re) == IF ~re THEN PseudoRegexp(Str(s)) ELSE Str(cv)

\* filters.py:188
Subset(col, pattern) ==
    {col.categories[k] : k \in
       {k \in 1..Len(col.categories) : ReMatch(pattern, Str(col.categories[k]))}}

\* meta_col.isin(subset): a row without a category is in no subset.
IsIn(col, subset) ==
    [r \in 1..Len(col.codes) |->
        col.codes[r] # -1 /\ col.categories[col.codes[r] + 1] \in subset]

\* filters.py:200-202
MissingMask(col) == [r \in 1..Len(col.codes) |-> col.codes[r] = -1]

Abs(n) == IF n < 0 THEN 0 - n ELSE n

\* np.isclose(a, b) with its defaults rtol = 1e-05 and atol = 1e-08:
\* |a - b| <= atol + rtol * |b|, on values counted in millionths.
IsClose(a, b) == Abs(a - b) <= (1000 + Abs(b)) \div 100000

\* filters.py:204: np.isclose(s_float, meta_col.astype(float)); a row without
\* a category is nan there and close to nothing.
CloseMask(col, sf) ==
    [r \in 1..Len(col.codes) |->
        col.codes[r] # -1 /\ IsClose(sf, col.categories[col.codes[r] + 1].v)]

AllTrue(n) == [r \in 1..n |-> TRUE]
AllFalse(n) == [r \in 1..n |-> FALSE]

\* matches = mask
Overwrite(m, mask) == mask

\* matches |= mask
OrMask(m, mask) == [r \in 1..Len(m) |-> m[r] \/ mask[r]]

\* filters.py:162-204: one pass of the loop over _values for the spec s:
\* [err, mask], mask being what is or-ed into matches.
Pass(col, s, lvl, re, sep) ==
    LET cv == ComparisonValue(s)
        n == Len(col.codes)
    IN
    IF UseStringComparison(cv, col) THEN
        IF IsBareStar(cv, re, lvl) THEN [err |-> "", mask |-> AllTrue(n)]
        ELSE
        LET pattern == Compile(PatternSource(s, cv, re)) IN
        IF pattern.err # "" THEN [err |-> "re.error", mask |-> AllFalse(n)]
        ELSE
        LET subset == Subset(col, pattern) IN
        IF lvl.k # "none" THEN
            LET depth == FindDepth(col, Str(cv), lvl, sep) IN
            IF depth.err # "" THEN [err |-> depth.err, mask |-> AllFalse(n)]
            ELSE [err |-> "", mask |-> IsIn(col, subset \cap depth.list)]
        ELSE [err |-> "", mask |-> IsIn(col, subset)]
    ELSE
        IF cv.k = "nan" THEN [err |-> "", mask |-> MissingMask(col)]
        ELSE [err |-> "", mask |-> CloseMask(col, cv.v)]

VARIABLES
    meta_col,     \* [dtype, categories, codes]: the categorical column
    values,       \* [iter, val]: a list of specs, or one spec (iter = FALSE)
    level,        \* the level filter
    regexp,       \* the regexp flag
    separator,    \* the hierarchy separator
    values_list,  \* _values
    matches,      \* the mask built so far
    idx,          \* how many specs of _values the loop has done
    pc,           \* "call", "loop", "returned" or "raised"
    err,          \* the exception raised, "" if none
    fn,           \* the time matcher that is called, "" if none is
    data,         \* its data: the values of the time column
    times,        \* [iter, val]: its years, months, days, hours or dts, as given
    caller_times, \* the object that was given as times, as the caller sees it now
    times_list,   \* times_list (hours_list, the rebound years and dts)
    to_delete,    \* time_match: the indexes of the range strings
    to_append,    \* time_match: the integers of the ranges
    tests,        \* is_in: how many "v in items" were evaluated
    start,        \* generate_range: start
    end,          \* generate_range: end
    offset,       \* generate_range: offset, [cls, n, month]
    range_end,    \* cftime_range: the end of the range that is generated
    current,      \* cftime_range: the date that comes next
    dates,        \* cftime_range: the dates generated so far (res)
    series,       \* the TimeSeries objects: what each one refers to
    buffers,      \* the value buffers that the objects refer to
    axes,         \* the time axes that the objects refer to
    mappings,     \* the attribute mappings that the objects refer to
    call,         \* the last call on a TimeSeries and its arguments
    scmrun,       \* processing and groupby: the run, a row for every timeseries
    call_args,    \* processing and groupby: the other arguments of the calls
    results       \* processing and groupby: what the calls have returned

\* The variables of the time matchers.
timeVars == <<fn, data, times, caller_times, times_list, to_delete, to_append, tests>>

\* The variables of generate_range.
rangeVars == <<start, end, offset, range_end, current, dates>>

\* The variables of TimeSeries.
seriesVars == <<series, buffers, axes, mappings, call>>

\* The variables of pattern_match alone, and the variables that each family
\* of calls does not have.

patternVars == <<meta_col, values, level, regexp, separator, values_list>>
runVars == <<scmrun, call_args, results>>
notPatternMatch == <<timeVars, rangeVars, seriesVars, runVars>>
notTimeMatch == <<patternVars, rangeVars, seriesVars, runVars>>
notRange == <<patternVars, timeVars, seriesVars, runVars, matches, idx>>
notSeries == <<patternVars, timeVars, rangeVars, runVars, matches, idx>>
notRun == <<patternVars, timeVars, rangeVars, seriesVars, matches, idx>>

vars == <<meta_col, values, level, regexp, separator, values_list, matches, idx, pc, err,
          timeVars, rangeVars, seriesVars, runVars>>

inputs == <<meta_col, values, level, regexp, separator>>

\* filters.py:154-159
Enter ==
    /\ pc = "call"
    /\ matches' = AllFalse(Len(meta_col.codes))
    /\ values_list' = IF values.iter THEN values.val ELSE <<values.val[1]>>
    /\ idx' = 0
    /\ pc' = "loop"
    /\ UNCHANGED <<inputs, err, notPatternMatch>>

\* filters.py:161-204
LoopBody ==
    /\ pc = "loop"
    /\ idx < Len(values_list)
    /\ LET r == Pass(meta_col, values_list[idx + 1], level, regexp, separator) IN
       IF r.err # ""
       THEN /\ pc' = "raised"
            /\ err' = r.err
            /\ UNCHANGED <<matches, idx>>
       ELSE /\ matches' = OrMask(matches, r.mask)
            /\ idx' = idx + 1
            /\ UNCHANGED <<pc, err>>
    /\ UNCHANGED <<inputs, values_list, notPatternMatch>>

\* filters.py:206
Return ==
    /\ pc = "loop"
    /\ idx = Len(values_list)
    /\ pc' = "returned"
    /\ UNCHANGED <<inputs, values_list, matches, idx, err, notPatternMatch>>

Next == Enter \/ LoopBody \/ Return

(***************************************************************************)
(* The calls that are explored.                                            *)
(***************************************************************************)
Strings(A, n) == UNION {[1..k -> A] : k \in 0..n}

RECURSIVE StringsOfLen(_, _)
\* The strings of n characters of the sequence A, one after the other.
StringsOfLen(A, n) ==
    IF n = 0 THEN << <<>> >>
    ELSE LET shorter == StringsOfLen(A, n - 1) IN
         [i \in 1..(Len(shorter) * Len(A)) |->
             Append(shorter[((i - 1) \div Len(A)) + 1], A[((i - 1) % Len(A)) + 1])]

RECURSIVE StringsUpTo(_, _)
\* The strings of at most n characters of A, one after the other.
StringsUpTo(A, n) ==
    IF n = 0 THEN StringsOfLen(A, 0) ELSE StringsUpTo(A, n - 1) \o StringsOfLen(A, n)

\* The labels that the strings of ss are.
LabelsOf(ss) == [i \in 1..Len(ss) |-> StrVal(ss[i])]

\* A column with the given categories: a row for every category, a row
\* without a category, and a second row for every category.
Column(dtype, cats) ==
    LET n == Len(cats) IN
    [dtype |-> dtype, categories |-> cats,
     codes |-> [r \in 1..(2 * n + 1) |->
                  IF r <= n THEN r - 1 ELSE IF r = n + 1 THEN -1 ELSE r - n - 2]]

\* values: a list of specs (iter), or one spec that is no list, held in val
\* as the only element.
Scalar(s) == [iter |-> FALSE, val |-> <<s>>]
List(ss) == [iter |-> TRUE, val |-> ss]

\* There is no run.
NoRun ==
    /\ scmrun = <<>>
    /\ call_args = <<>>
    /\ results = <<>>

\* There is no TimeSeries.
NoSeries ==
    /\ series = <<>>
    /\ buffers = <<>>
    /\ axes = <<>>
    /\ mappings = <<>>
    /\ call = [op |-> "", self |-> 0, result |-> 0,
               data |-> [labelled |-> FALSE, ndim |-> 0, dims |-> <<>>,
                         values |-> <<>>, coords |-> <<>>],
               time |-> [none |-> TRUE, val |-> <<>>],
               other |-> [magnitude |-> 0, unit |-> ""], named |-> <<>>]

\* generate_range is not called.
NoRangeCall ==
    /\ start = [year |-> 0, month |-> 0, day |-> 0, hour |-> 0, microsecond |-> 0]
    /\ end = start
    /\ offset = [cls |-> "", n |-> 0, month |-> 0]
    /\ range_end = start
    /\ current = start
    /\ dates = <<>>

\* No time matcher is called.
NoTimeCall ==
    /\ fn = ""
    /\ data = <<>>
    /\ times = List(<<>>)
    /\ caller_times = times
    /\ times_list = List(<<>>)
    /\ to_delete = <<>>
    /\ to_append = <<>>
    /\ tests = 0

InitCall(cols, vals, lvls, res, seps) ==
    /\ NoTimeCall
    /\ NoRangeCall
    /\ NoSeries
    /\ NoRun
    /\ meta_col \in cols
    /\ values \in vals
    /\ level \in lvls
    /\ regexp \in res
    /\ separator \in seps
    /\ values_list = <<>>
    /\ matches = <<>>
    /\ idx = 0
    /\ pc = "call"
    /\ err = ""

\* Row r has a category, and it is the str lb.
RowHasLabel(r, lb) ==
    /\ meta_col.codes[r] # -1
    /\ meta_col.categories[meta_col.codes[r] + 1] = StrVal(lb)

\* The category of row r (a row that has one).
RowLabel(r) == meta_col.categories[meta_col.codes[r] + 1]

\* The spec of a call that is given one spec.
TheSpec == values.val[1]

Rows == 1..Len(meta_col.codes)
LabelledRows == {r \in Rows : meta_col.codes[r] # -1}

\* The call has ended and selected (or not) every row labelled lb.
Selects(lb) ==
    /\ pc = "returned"
    /\ \E r \in Rows : RowHasLabel(r, lb)
    /\ \A r \in Rows : RowHasLabel(r, lb) => matches[r]
Rejects(lb) ==
    /\ pc = "returned"
    /\ \E r \in Rows : RowHasLabel(r, lb)
    /\ \A r \in Rows : RowHasLabel(r, lb) => ~matches[r]

HasStar(s) == \E k \in 1..Len(s) : s[k] = "*"
EndsWithNL(s) == s # <<>> /\ s[Len(s)] = NL
NoNL(s, k) == \A j \in 1..k : s[j] # NL

(***************************************************************************)
(* Calls with one glob spec, regexp = False and level = None.              *)
(***************************************************************************)
GlobLabelLen == 3
GlobSpecLen == 3

GlobLabels == LabelsOf(StringsUpTo(<<"a", "b", "|", NL>>, GlobLabelLen))
GlobSpecs == {StrVal(s) : s \in Strings({"a", "|", "*", ".", NL}, GlobSpecLen)}

\* The labels and the spec of the example  a|b|*.
ExampleLabels ==
    << StrVal(<<"a", "|", "b", "|", "c">>), StrVal(<<"a", "|", "b", "|", "d">>),
       StrVal(<<"a", "|", "b">>), StrVal(<<"x", "|", "a", "|", "b", "|", "c">>) >>
ExampleSpec == StrVal(<<"a", "|", "b", "|", "*">>)

InitGlob ==
    InitCall({Column("str", GlobLabels), Column("str", ExampleLabels)},
             {Scalar(s) : s \in GlobSpecs \cup {ExampleSpec}},
             {NoLevel}, {FALSE}, {HIERARCHY_SEPARATOR})

SpecGlob == InitGlob /\ [][Next]_vars

RECURSIVE GlobFits(_, _, _)
\* lb is sp with every "*" replaced by some string; with lines, a string
\* that replaces a "*" holds no line break.
GlobFits(sp, lb, lines) ==
    IF sp = <<>> THEN lb = <<>>
    ELSE IF Head(sp) = "*"
    THEN \E k \in 0..Len(lb) :
            /\ lines => NoNL(lb, k)
            /\ GlobFits(Tail(sp), Drop(lb, k), lines)
    ELSE lb # <<>> /\ Head(lb) = Head(sp) /\ GlobFits(Tail(sp), Tail(lb), lines)

\* What a glob spec other than the bare "*" selects: lb, or lb without the
\* line break that ends it, is sp with every "*" replaced by a string without
\* line breaks.
GlobSelects(sp, lb) ==
    \/ GlobFits(sp, lb, TRUE)
    \/ EndsWithNL(lb) /\ GlobFits(sp, SubSeq(lb, 1, Len(lb) - 1), TRUE)

IsGlobCall ==
    /\ ~values.iter /\ IsStr(TheSpec) /\ HasStar(TheSpec.s)
    /\ ~regexp /\ level = NoLevel

\* C1 as stated: with regexp = False and level = None a spec that holds "*"
\* selects exactly the labels got by replacing every "*" with an arbitrary
\* string, the whole label being matched.
C1_GlobAnyString ==
    IsGlobCall =>
        /\ pc # "raised"
        /\ pc = "returned" =>
              \A r \in LabelledRows :
                  matches[r] <=> GlobFits(TheSpec.s, RowLabel(r).s, FALSE)

\* What the code selects in the calls of C1: the bare "*" selects every row;
\* any other spec that holds "*" selects exactly the labels that, with the
\* line break that may end them left out, are the spec with every "*"
\* replaced by a string without line breaks ("." matches no line break and
\* "$" matches before a line break that ends the label).
C1_GlobWithinLines ==
    IsGlobCall =>
        /\ pc # "raised"
        /\ pc = "returned" =>
              \A r \in LabelledRows :
                  matches[r] <=>
                      \/ TheSpec.s = <<"*">>
                      \/ GlobSelects(TheSpec.s, RowLabel(r).s)

\* C1's example: a|b|* selects a|b|c and a|b|d, and neither a|b nor
\* x|a|b|c.
C1_Witness ==
    /\ IsGlobCall
    /\ values = Scalar(ExampleSpec)
    /\ Selects(<<"a", "|", "b", "|", "c">>)
    /\ Selects(<<"a", "|", "b", "|", "d">>)
    /\ Rejects(<<"a", "|", "b">>)
    /\ Rejects(<<"x", "|", "a", "|", "b", "|", "c">>)

(***************************************************************************)
(* Calls with one str spec and a level filter.                             *)
(***************************************************************************)
LevelLabelLen == 3
LevelSpecLen == 3
MaxLevel == 2

LevelLabels == LabelsOf(StringsUpTo(<<"a", "b", "|">>, LevelLabelLen))
LevelSpecs == {StrVal(s) : s \in Strings({"a", "|", "*"}, LevelSpecLen)}

\* The label and the spec of the example  a|b|c.
DepthExample == <<"a", "|", "b", "|", "c">>

\* N, "N-", "N+", "Nx" and "N" itself as a str, and the strs "-" and "".
Levels ==
    {IntLevel(n) : n \in 0..MaxLevel}
        \cup {StrLevel(Digits(n) \o e) : n \in 0..MaxLevel,
                                          e \in {<<"-">>, <<"+">>, <<"x">>, <<>>}}
        \cup {StrLevel(<<"-">>), StrLevel(<<>>)}

InitLevel ==
    InitCall({Column("str", LevelLabels), Column("str", <<StrVal(DepthExample)>>)},
             {Scalar(s) : s \in LevelSpecs \cup {StrVal(DepthExample)}},
             Levels, BOOLEAN, {HIERARCHY_SEPARATOR})

SpecLevel == InitLevel /\ [][Next]_vars

IsDepthExampleCall(n) ==
    /\ meta_col.categories = <<StrVal(DepthExample)>>
    /\ values = Scalar(StrVal(DepthExample))
    /\ level = IntLevel(n)

\* C2 as stated: the label a|b|c with the spec a|b|c is selected when
\* level = 1 and is not selected when level = 0.
C2_ExampleDepthOne ==
    pc = "returned" =>
        /\ IsDepthExampleCall(1) => \A r \in LabelledRows : matches[r]
        /\ IsDepthExampleCall(0) => \A r \in LabelledRows : ~matches[r]

\* C2 amended: the label a|b|c with the spec a|b|c is selected when
\* level = 0 (removing the text of the spec leaves no separator) and is not
\* selected when level = 1; the call returns in both cases.
C2_ExampleDepthZero ==
    /\ (\E n \in {0, 1} : IsDepthExampleCall(n)) => pc # "raised"
    /\ pc = "returned" =>
        /\ IsDepthExampleCall(0) => \A r \in LabelledRows : matches[r]
        /\ IsDepthExampleCall(1) => \A r \in LabelledRows : ~matches[r]

C2_Witness == IsDepthExampleCall(0) /\ ~regexp /\ Selects(DepthExample)

\* The text of a spec before its first "*".
LiteralPrefix(sp) ==
    IF HasStar(sp)
    THEN SubSeq(sp, 1, (CHOOSE k \in 1..Len(sp) :
                           sp[k] = "*" /\ \A j \in 1..(k - 1) : sp[j] # "*") - 1)
    ELSE sp

\* The length of the longest prefix that a and b share.
SharedPrefixLen(a, b) ==
    CHOOSE n \in 0..Len(a) :
        /\ n <= Len(b)
        /\ \A j \in 1..n : a[j] = b[j]
        /\ (n < Len(a) /\ n < Len(b)) => a[n + 1] # b[n + 1]

\* The separators left in lb once the longest literal prefix it shares with
\* sp is removed.
PrefixDepth(lb, sp, sep) ==
    CountFrom(Drop(lb, SharedPrefixLen(lb, LiteralPrefix(sp))), sep, 0)

\* The call compared a str spec, went through find_depth and returned.
ReachesFindDepth ==
    /\ ~values.iter /\ IsStr(TheSpec) /\ TheSpec.s # <<>>
    /\ level.k # "none"
    /\ pc = "returned"

\* C3 as stated: the depth find_depth gives a label is the number of
\* separators left after removing only the longest literal prefix the label
\* shares with the spec.
C3_DepthAfterSharedPrefix ==
    ReachesFindDepth =>
        \A k \in 1..Len(meta_col.categories) :
            Depth(meta_col.categories[k].s, TheSpec.s, separator)
                = PrefixDepth(meta_col.categories[k].s, TheSpec.s, separator)

\* The level of the call is the int n, "n-" or "n+", and d passes it.
PassesLevel(d) ==
    \E n \in 0..MaxLevel :
        \/ level = IntLevel(n) /\ d = n
        \/ level = StrLevel(Digits(n) \o <<"-">>) /\ d <= n
        \/ level = StrLevel(Digits(n) \o <<"+">>) /\ d >= n

WellFormedLevel ==
    \E n \in 0..MaxLevel :
        level \in {IntLevel(n), StrLevel(Digits(n) \o <<"-">>), StrLevel(Digits(n) \o <<"+">>)}

\* A level that is a str ending in something else than "-" and "+".
OtherSuffixLevel ==
    level.k = "str" /\ level.s # <<>> /\ level.s[Len(level.s)] \notin {"-", "+"}

\* The glob / regex step selects lb for the str spec sp.
StepSelects(sp, lb) ==
    IF regexp THEN ReMatch(Compile(sp), lb) ELSE GlobSelects(sp, lb)

IsLevelCall == ~values.iter /\ IsStr(TheSpec) /\ level.k # "none"

MaxSpecs == 2

One == Scale
OneAndABit == Scale + 1
OneAndAHalf == Scale + Scale \div 2
Two == 2 * Scale

MixSpecs ==
    {StrVal(<<>>), StrVal(<<"*">>), StrVal(<<"a">>), StrVal(<<"1">>),
     StrVal(<<"1", ".", "0">>), StrVal(<<"1", "*">>),
     IntVal(1), FloatVal(One), FloatVal(Two), NaN}

StrColumn ==
    Column("str", << StrVal(<<"a">>), StrVal(<<"a", "|", "b">>), StrVal(<<"1">>),
                     StrVal(<<"1", ".", "0">>), StrVal(<<"2">>), StrVal(<<>>),
                     StrVal(<<"1", ".", "0", NL>>) >>)
FloatColumn ==
    Column("float", << FloatVal(One), FloatVal(OneAndABit), FloatVal(OneAndAHalf),
                       FloatVal(Two) >>)
IntColumn == Column("int", << IntVal(1), IntVal(2) >>)

MixValues ==
    {Scalar(s) : s \in MixSpecs}
        \cup {List(ss) : ss \in UNION {[1..k -> MixSpecs] : k \in 0..MaxSpecs}}

InitMix ==
    \/ InitCall({StrColumn, FloatColumn, IntColumn}, MixValues,
                {NoLevel, IntLevel(0), StrLevel(<<"1", "x">>)},
                BOOLEAN, {HIERARCHY_SEPARATOR})
    \/ InitCall({StrColumn, FloatColumn, IntColumn}, MixValues,
                {StrLevel(<<"0", "+">>)}, BOOLEAN, {<<".">>})

SpecMix == InitMix /\ [][Next]_vars

\* The specs of the call, whether one was given or a list.
GivenSpecs == values.val

C6_EmptySelectsMissing ==
    (Len(GivenSpecs) = 1 /\ GivenSpecs[1] \in {StrVal(<<>>), NaN})
        => /\ pc # "raised"
           /\ pc = "returned" =>
                 \A r \in Rows : matches[r] <=> meta_col.codes[r] = -1

C6_Witness ==
    /\ pc = "returned"
    /\ values = Scalar(StrVal(<<>>))
    /\ meta_col = StrColumn /\ regexp
    /\ \E r \in Rows : matches[r]
    /\ \E r \in Rows : ~matches[r]

\* C7: the mask has an entry for every row; the mask of a list of specs is
\* the or of the masks of its specs taken alone (so the order of the specs
\* does not matter), the call raising exactly when the pass of one spec
\* raises; two rows of the same category get the same value.
C7_MaskIsOrOfSpecs ==
    LET alone(k) == Pass(meta_col, GivenSpecs[k], level, regexp, separator) IN
    /\ pc = "returned" =>
          /\ Len(matches) = Len(meta_col.codes)
          /\ \A k \in 1..Len(GivenSpecs) : alone(k).err = ""
          /\ \A r \in Rows : matches[r] <=> \E k \in 1..Len(GivenSpecs) : alone(k).mask[r]
          /\ \A r1, r2 \in Rows :
                meta_col.codes[r1] = meta_col.codes[r2] => matches[r1] = matches[r2]
    /\ pc = "raised" => \E k \in 1..Len(GivenSpecs) : alone(k).err = err

C7_Witness ==
    /\ pc = "returned"
    /\ values = List(<<StrVal(<<"a">>), StrVal(<<"1">>)>>)
    /\ meta_col = StrColumn /\ ~regexp /\ level = NoLevel
    /\ Selects(<<"a">>) /\ Selects(<<"1">>) /\ Rejects(<<"2">>)

\* A label taken as a number (in millionths), -1 if it is none.
LabelNumber(lb) ==
    IF lb.k # "str" THEN lb.v
    ELSE IF lb.s \in {<<"1">>, <<"1", ".", "0">>, <<"1", ".", "0", NL>>} THEN One
    ELSE IF lb.s = <<"2">> THEN Two
    ELSE -1

\* str() of the numeric specs of MixSpecs.
Numeral(s) ==
    IF s = IntVal(1) THEN <<"1">>
    ELSE IF s = FloatVal(One) THEN <<"1", ".", "0">>
    ELSE <<"2", ".", "0">>

IsNumberCall == ~values.iter /\ TheSpec.k \in {"int", "float"}

\* |a - b| <= 1e-08 + 1e-05 * |b| on millionths.
Near(a, b) == Abs(a - b) < 100 /\ 100000 * Abs(a - b) <= 1000 + Abs(b)

\* C9 as stated: a spec that is a number selects exactly the rows whose
\* label, taken as a number, is near the spec, on a column of numeric dtype
\* and on a column of str dtype (1.0 selects a row labelled 1).
C9_NumberEqualsLabel ==
    (IsNumberCall /\ level = NoLevel /\ ~regexp) =>
        /\ pc # "raised"
        /\ pc = "returned" =>
              \A r \in Rows :
                  matches[r] <=>
                      /\ r \in LabelledRows
                      /\ LabelNumber(RowLabel(r)) # -1
                      /\ Near(TheSpec.v, LabelNumber(RowLabel(r)))

\* C9 amended: on a column of numeric dtype a spec that is a number selects
\* exactly the rows whose label is near the spec (np.isclose), whatever
\* level and regexp are.  On a column of str dtype nothing is compared as a
\* number: the call does what it does for the str spec str(spec), so that
\* with regexp = False and level = None 1.0 selects the label 1.0 and not
\* the label 1, and the int 1 selects the label 1 and not the label 1.0.
C9_NumberNearOrAsStr ==
    IsNumberCall =>
        /\ meta_col.dtype # "str" =>
              /\ pc # "raised"
              /\ pc = "returned" =>
                    \A r \in Rows :
                        matches[r] <=>
                            (r \in LabelledRows /\ Near(TheSpec.v, RowLabel(r).v))
        /\ meta_col.dtype = "str" =>
              LET asStr == Pass(meta_col, StrVal(Numeral(TheSpec)), level, regexp,
                                separator)
              IN  /\ pc = "returned" => (asStr.err = "" /\ matches = asStr.mask)
                  /\ pc = "raised" => asStr.err = err
        /\ (meta_col.dtype = "str" /\ level = NoLevel /\ ~regexp /\ pc = "returned") =>
              \A r \in LabelledRows :
                  /\ RowLabel(r).s = Numeral(TheSpec) => matches[r]
                  /\ RowLabel(r).s \in {<<"1">>, <<"1", ".", "0">>, <<"2">>}
                         \ {Numeral(TheSpec)} => ~matches[r]

C9_Witness ==
    /\ pc = "returned"
    /\ values = Scalar(FloatVal(One))
    /\ meta_col = StrColumn /\ level = NoLevel /\ ~regexp
    /\ Selects(<<"1", ".", "0">>) /\ Rejects(<<"1">>)

(***************************************************************************)
(* Calls with one spec made of ordinary characters and of the characters   *)
(* that PseudoRegexp escapes, regexp = False and level = None.             *)
(***************************************************************************)
LiteralLen == 2

LiteralChars == {"a", ".", "+", "(", ")", "$", "^", "|"}
LiteralSpecs == {StrVal(s) : s \in Strings(LiteralChars, LiteralLen)}

\* The strings over the same characters and "b", alone and followed by a
\* line break.
LiteralLabels ==
    LET L == StringsUpTo(<<"a", "b", ".", "+", "(", ")", "$", "^", "|">>, LiteralLen) IN
    LabelsOf(L) \o LabelsOf([i \in 1..Len(L) |-> L[i] \o <<NL>>])

InitLiteral ==
    InitCall({Column("str", LiteralLabels)}, {Scalar(s) : s \in LiteralSpecs},
             {NoLevel}, {FALSE}, {HIERARCHY_SEPARATOR})

SpecLiteral == InitLiteral /\ [][Next]_vars

IsLiteralCall ==
    /\ ~values.iter /\ IsStr(TheSpec) /\ TheSpec.s # <<>>
    /\ ~HasStar(TheSpec.s)
    /\ ~regexp /\ level = NoLevel

\* C8 as stated: with regexp = False a spec without "*" made of ordinary
\* characters and of . + ( ) $ ^ | selects exactly the labels equal to it.
C8_LiteralSelectsItself ==
    IsLiteralCall =>
        /\ pc # "raised"
        /\ pc = "returned" =>
              \A r \in LabelledRows : matches[r] <=> RowLabel(r).s = TheSpec.s

\* What the code selects in the calls of C8: the labels equal to the spec
\* and the labels equal to it followed by one line break ("$" matches
\* before a line break that ends the label).
C8_LiteralSelectsItselfOrLine ==
    IsLiteralCall =>
        /\ pc # "raised"
        /\ pc = "returned" =>
              \A r \in LabelledRows :
                  matches[r] <=>
                      RowLabel(r).s \in {TheSpec.s, TheSpec.s \o <<NL>>}

C8_Witness ==
    /\ IsLiteralCall
    /\ TheSpec.s = <<"a", ".">>
    /\ Selects(<<"a", ".">>) /\ Rejects(<<"a", "b">>) /\ Rejects(<<"a">>)

(***************************************************************************)
(* Calls with one spec without "*", made of ordinary characters, "?" and   *)
(* the backslash, which PseudoRegexp leaves as they are; regexp = False    *)
(* and level = None.  No label has a line break.                           *)
(***************************************************************************)
UnescapedLen == 3

UnescapedSpecs == {StrVal(s) : s \in Strings({"a", "?", BS}, UnescapedLen)}

UnescapedLabels == LabelsOf(StringsUpTo(<<"a", "b", "?", BS>>, UnescapedLen))

InitUnescaped ==
    InitCall({Column("str", UnescapedLabels)}, {Scalar(s) : s \in UnescapedSpecs},
             {NoLevel}, {FALSE}, {HIERARCHY_SEPARATOR})

SpecUnescaped == InitUnescaped /\ [][Next]_vars

C27_UnescapedKeepMeaning ==
    IsLiteralCall =>
        /\ TheSpec.s = <<"a", "?">> =>
              (Selects(<<"a">>) /\ Selects(<<>>) /\ Rejects(<<"a", "?">>)) \/ pc = "call"
                 \/ pc = "loop"
        /\ (TheSpec.s[1] = "?" /\ pc \in {"returned", "raised"}) => pc = "raised"
        /\ (TheSpec.s = <<"a", BS>> /\ pc \in {"returned", "raised"}) =>
              (pc = "returned" /\ \A r \in Rows : ~matches[r])
        /\ (TheSpec.s = <<BS, "?">> /\ pc = "returned") =>
              \A r \in LabelledRows : matches[r] <=> RowLabel(r).s = <<"?">>
        /\ ((\A k \in 1..Len(TheSpec.s) : TheSpec.s[k] = "a") /\ pc \in {"returned", "raised"}) =>
              /\ pc = "returned"
              /\ \A r \in LabelledRows : matches[r] <=> RowLabel(r).s = TheSpec.s

(***************************************************************************)
(* Calls with one spec, regexp = True and level = None.                    *)
(***************************************************************************)
RegexpSpecLen == 3
RegexpLabelLen == 3

RegexpSpecs ==
    {StrVal(s) : s \in Strings({"a", ".", "*", "+", "(", ")", "$", "^", "|"}, RegexpSpecLen)}
RegexpLabels ==
    LabelsOf(StringsUpTo(<<"a", "b", NL>>, RegexpLabelLen))
        \o << StrVal(<<"a", "b", "c">>), StrVal(<<"*">>), StrVal(<<"a", "*">>) >>

InitRegexp ==
    InitCall({Column("str", RegexpLabels)}, {Scalar(s) : s \in RegexpSpecs},
             {NoLevel}, {TRUE}, {HIERARCHY_SEPARATOR})

SpecRegexp == InitRegexp /\ [][Next]_vars

IsRegexpCall ==
    /\ ~values.iter /\ IsStr(TheSpec) /\ TheSpec.s # <<>>
    /\ regexp /\ level = NoLevel

\* C10: with regexp = True the spec itself is compiled: nothing is escaped,
\* "*" is not turned into ".*", no "$" is put at its end and the bare "*" is
\* not a shortcut (it does not compile).  A label is selected exactly when
\* the compiled spec matches from the first character of the label.
C10_RegexpCompiledVerbatim ==
    IsRegexpCall =>
        LET compiled == Compile(TheSpec.s) IN
        /\ pc = "raised" => (compiled.err # "" /\ err = "re.error")
        /\ pc = "returned" =>
              /\ compiled.err = ""
              /\ \A r \in Rows :
                    matches[r] <=>
                        (r \in LabelledRows /\ ReMatch(compiled, RowLabel(r).s))
        /\ TheSpec.s = <<"*">> => pc # "returned"
        /\ pc = "returned" =>
              \A r \in LabelledRows :
                  LET lb == RowLabel(r).s IN
                  /\ TheSpec.s = <<"a">> => (matches[r] <=> (lb # <<>> /\ lb[1] = "a"))
                  /\ TheSpec.s = <<".">> => (matches[r] <=> (lb # <<>> /\ lb[1] # NL))
                  /\ TheSpec.s = <<"a", "*">> => matches[r]

\* The spec a selects the label abc, and a. selects ab and not a.
C10_Witness ==
    /\ IsRegexpCall
    /\ \/ TheSpec.s = <<"a">> /\ Selects(<<"a", "b", "c">>) /\ Rejects(<<"b", "a">>)
       \/ TheSpec.s = <<"a", ".">> /\ Selects(<<"a", "b">>) /\ Rejects(<<"a">>)

(***************************************************************************)
(* The time matchers: years_match, month_match, day_match, hour_match,     *)
(* datetime_match and time_match.  An element of data and of the values    *)
(* to match is an int, a numpy integer, a float, a str or a datetime.      *)
(***************************************************************************)
NpIntegerVal(n) == [k |-> "np.integer", s |-> <<>>, v |-> n * Scale]
DatetimeVal(n) == [k |-> "datetime", s |-> <<>>, v |-> n]

IsNumber(x) == x.k \in {"int", "np.integer", "float"}

\* a == b of two such values
PyEq(a, b) ==
    \/ IsNumber(a) /\ IsNumber(b) /\ a.v = b.v
    \/ a.k = "str" /\ b.k = "str" /\ a.s = b.s
    \/ a.k = "datetime" /\ b.k = "datetime" /\ a.v = b.v

UpperCase ==
    <<"A", "B", "C", "D", "E", "F", "G", "H", "I", "J", "K", "L", "M">>
        \o <<"N", "O", "P", "Q", "R", "S", "T", "U", "V", "W", "X", "Y", "Z">>
LowerCase ==
    <<"a", "b", "c", "d", "e", "f", "g", "h", "i", "j", "k", "l", "m">>
        \o <<"n", "o", "p", "q", "r", "s", "t", "u", "v", "w", "x", "y", "z">>

\* str.lower on the letters A-Z
Lower(c) ==
    IF \E i \in 1..Len(UpperCase) : UpperCase[i] = c
    THEN LowerCase[CHOOSE i \in 1..Len(UpperCase) : UpperCase[i] = c]
    ELSE c
StrLower(s) == [i \in 1..Len(s) |-> Lower(s[i])]

\* _strptime.LocaleTime: the names of the months and of the days of the week
\* in lower case (C locale), a_month and f_month from month 1 on.
a_month ==
    << <<"j", "a", "n">>, <<"f", "e", "b">>, <<"m", "a", "r">>,
       <<"a", "p", "r">>, <<"m", "a", "y">>, <<"j", "u", "n">>,
       <<"j", "u", "l">>, <<"a", "u", "g">>, <<"s", "e", "p">>,
       <<"o", "c", "t">>, <<"n", "o", "v">>, <<"d", "e", "c">> >>
f_month ==
    << <<"j", "a", "n", "u", "a", "r", "y">>,
       <<"f", "e", "b", "r", "u", "a", "r", "y">>,
       <<"m", "a", "r", "c", "h">>, <<"a", "p", "r", "i", "l">>,
       <<"m", "a", "y">>, <<"j", "u", "n", "e">>, <<"j", "u", "l", "y">>,
       <<"a", "u", "g", "u", "s", "t">>,
       <<"s", "e", "p", "t", "e", "m", "b", "e", "r">>,
       <<"o", "c", "t", "o", "b", "e", "r">>,
       <<"n", "o", "v", "e", "m", "b", "e", "r">>,
       <<"d", "e", "c", "e", "m", "b", "e", "r">> >>
a_weekday ==
    << <<"m", "o", "n">>, <<"t", "u", "e">>, <<"w", "e", "d">>,
       <<"t", "h", "u">>, <<"f", "r", "i">>, <<"s", "a", "t">>,
       <<"s", "u", "n">> >>
f_weekday ==
    << <<"m", "o", "n", "d", "a", "y">>,
       <<"t", "u", "e", "s", "d", "a", "y">>,
       <<"w", "e", "d", "n", "e", "s", "d", "a", "y">>,
       <<"t", "h", "u", "r", "s", "d", "a", "y">>,
       <<"f", "r", "i", "d", "a", "y">>,
       <<"s", "a", "t", "u", "r", "d", "a", "y">>,
       <<"s", "u", "n", "d", "a", "y">> >>

IndexOf(table, w) == CHOOSE i \in 1..Len(table) : table[i] = w

\* getattr(time.strptime(t, conv_code), strptime_attr) for the codes %b and %B
\* (tm_mon, 1 to 12) and %a and %A (tm_wday, 0 to 6): the name is looked up
\* whatever its case and has to be the whole of t; anything else raises
\* ValueError.
Strptime(t, conv_code) ==
    LET table == IF conv_code = "%b" THEN a_month
                 ELSE IF conv_code = "%B" THEN f_month
                 ELSE IF conv_code = "%a" THEN a_weekday
                 ELSE f_weekday
        w == StrLower(t)
    IN  IF \E i \in 1..Len(table) : table[i] = w
        THEN [err |-> "",
              n |-> IF conv_code \in {"%b", "%B"} THEN IndexOf(table, w)
                    ELSE IndexOf(table, w) - 1]
        ELSE [err |-> "ValueError", n |-> 0]

\* filters.py:357-372: every string is converted with the first code that
\* converts them all.
RECURSIVE conv_strs(_, _)
conv_strs(strs_to_convert, conv_codes) ==
    IF conv_codes = <<>> THEN [err |-> "ValueError", res |-> <<>>]
    ELSE IF \A i \in 1..Len(strs_to_convert) :
                Strptime(strs_to_convert[i], Head(conv_codes)).err = ""
    THEN [err |-> "",
          res |-> [i \in 1..Len(strs_to_convert) |->
                      Strptime(strs_to_convert[i], Head(conv_codes)).n]]
    ELSE conv_strs(strs_to_convert, Tail(conv_codes))

\* The index of the first c in s from i on, 0 if there is none.
RECURSIVE Find(_, _, _)
Find(s, c, i) ==
    IF i > Len(s) THEN 0 ELSE IF s[i] = c THEN i ELSE Find(s, c, i + 1)

\* s.split(c) for a separator c of one character
RECURSIVE Split(_, _)
Split(s, c) ==
    LET k == Find(s, c, 1) IN
    IF k = 0 THEN <<s>>
    ELSE <<SubSeq(s, 1, k - 1)>> \o Split(SubSeq(s, k + 1, Len(s)), c)

\* filters.py:265 and 287: the conversion codes month_match and day_match
\* give time_match.
conv_codes == IF fn = "month" THEN <<"%b", "%B">> ELSE <<"%a", "%A">>

\* range(a, b + 1) as a list of ints
IntRange(a, b) == [j \in 1..(IF b >= a THEN b - a + 1 ELSE 0) |-> IntVal(a + j - 1)]

\* filters.py:392-393: del times_list[i] for the indexes of to_delete in
\* their order, every index counted in the list as the deletions before it
\* left it (IndexError past its end).
RECURSIVE DeleteAll(_, _)
DeleteAll(list, indexes) ==
    IF indexes = <<>> THEN [err |-> "", list |-> list]
    ELSE IF Head(indexes) >= Len(list) THEN [err |-> "IndexError", list |-> list]
    ELSE DeleteAll(SubSeq(list, 1, Head(indexes))
                       \o SubSeq(list, Head(indexes) + 2, Len(list)),
                   Tail(indexes))

\* filters.py:353-355 and 374: times_list is the list that was given (the
\* same object: the caller sees what is deleted from it) or a new list of
\* the int or str that was given; anything else has no element 0.
TimeMatchEnter ==
    /\ pc = "call"
    /\ fn \in {"month", "day"}
    /\ IF ~times.iter /\ times.val[1].k \notin {"int", "str"}
       THEN /\ pc' = "raised"
            /\ err' = "TypeError"
            /\ UNCHANGED <<times_list, idx>>
       ELSE IF times.val = <<>>
       THEN /\ pc' = "raised"
            /\ err' = "IndexError"
            /\ times_list' = List(<<>>)
            /\ UNCHANGED idx
       ELSE /\ times_list' = List(times.val)
            /\ pc' = IF times.val[1].k = "str" THEN "scan" ELSE "is_in"
            /\ idx' = 0
            /\ UNCHANGED err
    /\ UNCHANGED <<fn, data, times, caller_times, to_delete, to_append, tests, matches,
                   notTimeMatch>>

\* filters.py:377-390: one turn of the loop over times_list
TimeMatchScan ==
    /\ pc = "scan"
    /\ idx < Len(times_list.val)
    /\ LET timeset == times_list.val[idx + 1]
           ints == conv_strs(Split(timeset.s, "-"), conv_codes)
       IN  IF timeset.k # "str"
           THEN /\ pc' = "raised" /\ err' = "TypeError"
                /\ UNCHANGED <<idx, to_delete, to_append>>
           ELSE IF Find(timeset.s, "-", 1) = 0
           THEN /\ idx' = idx + 1
                /\ UNCHANGED <<pc, err, to_delete, to_append>>
           ELSE IF ints.err # "" \/ ints.res[1] > ints.res[2]
           THEN /\ pc' = "raised" /\ err' = "ValueError"
                /\ UNCHANGED <<idx, to_delete, to_append>>
           ELSE /\ to_append' = to_append \o IntRange(ints.res[1], ints.res[2])
                /\ to_delete' = Append(to_delete, idx)
                /\ idx' = idx + 1
                /\ UNCHANGED <<pc, err>>
    /\ UNCHANGED <<fn, data, times, caller_times, times_list, tests, matches,
                   notTimeMatch>>

\* filters.py:392-396: the range strings are deleted, what is left is
\* converted and the integers of the ranges are put after it.
TimeMatchConvert ==
    /\ pc = "scan"
    /\ idx = Len(times_list.val)
    /\ LET left == DeleteAll(times_list.val, to_delete)
           ints == conv_strs([i \in 1..Len(left.list) |-> left.list[i].s], conv_codes)
       IN  /\ caller_times' = IF times.iter THEN List(left.list) ELSE caller_times
           /\ IF left.err # ""
              THEN /\ pc' = "raised" /\ err' = left.err
                   /\ times_list' = List(left.list)
              ELSE IF ints.err # ""
              THEN /\ pc' = "raised" /\ err' = ints.err
                   /\ times_list' = List(left.list)
              ELSE /\ times_list' =
                         List([i \in 1..Len(ints.res) |-> IntVal(ints.res[i])] \o to_append)
                   /\ pc' = "is_in"
                   /\ UNCHANGED err
    /\ UNCHANGED <<fn, data, times, to_delete, to_append, tests, matches, idx,
                   notTimeMatch>>

\* filters.py:39 (is_in), called at 243, 308, 398 and 429: v in items for
\* every v of data.  An int, a float and a datetime have no "in", and a str
\* has it for a str only (no v of data is one): TypeError at the first v.
is_in ==
    /\ pc = "is_in"
    /\ IF times_list.iter
       THEN /\ matches' = [r \in 1..Len(data) |->
                              \E j \in 1..Len(times_list.val) :
                                  PyEq(data[r], times_list.val[j])]
            /\ tests' = Len(data)
            /\ pc' = "returned"
            /\ UNCHANGED err
       ELSE IF data = <<>>
       THEN /\ matches' = <<>>
            /\ pc' = "returned"
            /\ UNCHANGED <<tests, err>>
       ELSE /\ tests' = 1
            /\ pc' = "raised" /\ err' = "TypeError"
            /\ UNCHANGED matches
    /\ UNCHANGED <<fn, data, times, caller_times, times_list, to_delete, to_append, idx,
                   notTimeMatch>>

NextTimeMatch == TimeMatchEnter \/ TimeMatchScan \/ TimeMatchConvert \/ is_in

(***************************************************************************)
(* Calls of month_match and day_match with an int, a name, a range string  *)
(* or a list of them; data holds every month (day of the week), one twice. *)
(***************************************************************************)
MaxTimes == 3

MonthTimes ==
    { StrVal(<<"M", "a", "r">>), StrVal(<<"M", "a", "y">>),
      StrVal(<<"m", "a", "r", "c", "h">>), StrVal(<<"N", "o", "v">>),
      StrVal(<<"M", "a", "r", "-", "M", "a", "y">>),
      StrVal(<<"N", "o", "v", "-", "F", "e", "b">>),
      StrVal(<<"N", "o", "v", "-", "D", "e", "c">>),
      StrVal(<<"J", "a", "n", "-", "F", "e", "b">>),
      StrVal(<<"M", "a", "r", "-", "J", "u", "n", "e">>),
      StrVal(<<"F", "o", "o">>), IntVal(3), IntVal(12) }
DayTimes ==
    { StrVal(<<"M", "o", "n">>), StrVal(<<"W", "e", "d">>),
      StrVal(<<"s", "u", "n", "d", "a", "y">>),
      StrVal(<<"M", "o", "n", "-", "W", "e", "d">>),
      StrVal(<<"F", "r", "i", "-", "M", "o", "n">>), IntVal(2) }

MonthData == [r \in 1..13 |-> IntVal(IF r = 13 THEN 3 ELSE r)]
DayData == [r \in 1..8 |-> IntVal(IF r = 8 THEN 2 ELSE r - 1)]

\* pattern_match is not called.
NoPatternCall ==
    /\ meta_col = Column("str", <<>>)
    /\ values = List(<<>>)
    /\ level = NoLevel
    /\ regexp = FALSE
    /\ separator = HIERARCHY_SEPARATOR
    /\ values_list = <<>>

\* The lists of at most n elements of S.
ListsOf(S, n) == {List(ss) : ss \in UNION {[1..k -> S] : k \in 0..n}}

InitTime(f, datas, args) ==
    /\ fn = f
    /\ data \in datas
    /\ times \in args
    /\ caller_times = times
    /\ times_list = List(<<>>)
    /\ to_delete = <<>>
    /\ to_append = <<>>
    /\ tests = 0
    /\ matches = <<>>
    /\ idx = 0
    /\ pc = "call"
    /\ err = ""
    /\ NoPatternCall
    /\ NoRangeCall
    /\ NoSeries
    /\ NoRun

InitTimeMatch ==
    \/ InitTime("month", {MonthData},
                {Scalar(t) : t \in MonthTimes} \cup ListsOf(MonthTimes, MaxTimes))
    \/ InitTime("day", {DayData},
                {Scalar(t) : t \in DayTimes} \cup ListsOf(DayTimes, MaxTimes))

SpecTimeMatch == InitTimeMatch /\ [][NextTimeMatch]_vars

\* The integer that a name of a month (of a day, in day_match) or its
\* abbreviation stands for, -1 for any other string.
NameNumber(s) ==
    LET a == Strptime(s, conv_codes[1])
        f == Strptime(s, conv_codes[2])
    IN  IF a.err = "" THEN a.n ELSE IF f.err = "" THEN f.n ELSE -1

\* x is a range string A-B of two names; its endpoints.
IsRange(x) ==
    /\ x.k = "str"
    /\ Len(Split(x.s, "-")) = 2
    /\ \A i \in 1..2 : NameNumber(Split(x.s, "-")[i]) # -1
RangeFrom(x) == NameNumber(Split(x.s, "-")[1])
RangeTo(x) == NameNumber(Split(x.s, "-")[2])

\* C11 as stated: the single range string A-B whose endpoints are the
\* integers a <= b gives the mask of the integers a, ..., b; if a > b a
\* ValueError is raised.
C11_RangeIsIntegerList ==
    (fn \in {"month", "day"} /\ ~times.iter /\ IsRange(times.val[1])) =>
        LET a == RangeFrom(times.val[1])
            b == RangeTo(times.val[1])
        IN  IF a <= b
            THEN /\ pc # "raised"
                 /\ pc = "returned" =>
                       \A r \in 1..Len(data) :
                           matches[r] <=> \E n \in a..b : data[r] = IntVal(n)
            ELSE /\ pc # "returned"
                 /\ pc = "raised" => err = "ValueError"

\* The same for a range string whose two names are of the same kind, both
\* abbreviations or both full names.
C11_RangeOfOneKind ==
    (/\ fn \in {"month", "day"} /\ ~times.iter /\ IsRange(times.val[1])
     /\ conv_strs(Split(times.val[1].s, "-"), conv_codes).err = "")
        => C11_RangeIsIntegerList

\* x is an increasing range string of two abbreviations or of two full
\* names.
IsIncreasingRange(x) ==
    /\ IsRange(x)
    /\ RangeFrom(x) <= RangeTo(x)
    /\ conv_strs(Split(x.s, "-"), conv_codes).err = ""

\* x is an int, a name, an abbreviation or an increasing range string; the
\* integers it stands for.
Resolvable(x) ==
    \/ x.k = "int"
    \/ x.k = "str" /\ NameNumber(x.s) # -1
    \/ IsIncreasingRange(x)
Resolved(x) ==
    IF x.k = "int" THEN {x.v \div Scale}
    ELSE IF IsRange(x) THEN RangeFrom(x)..RangeTo(x)
    ELSE {NameNumber(x.s)}

\* The mask of the data whose integer is one of those that the elements
\* of times stand for.
IsUnionMask ==
    /\ Len(matches) = Len(data)
    /\ \A r \in 1..Len(data) :
          matches[r] <=> \E j \in 1..Len(times.val) :
                             \E n \in Resolved(times.val[j]) : data[r] = IntVal(n)

\* C12 as stated: a list of several increasing range strings gives the
\* mask of the union of the ranges (["Nov-Dec", "Jan-Feb"] selects the
\* months 11, 12, 1 and 2).
C12_ListOfRanges ==
    (/\ fn \in {"month", "day"} /\ times.iter /\ Len(times.val) >= 2
     /\ \A j \in 1..Len(times.val) : IsIncreasingRange(times.val[j]))
        => /\ pc # "raised"
           /\ pc = "returned" => IsUnionMask

\* What the code does with a list of strings that holds two range strings
\* or more: it raises IndexError or ValueError.
C12_TwoRangesRaise ==
    (/\ fn \in {"month", "day"} /\ times.iter /\ times.val # <<>>
     /\ \A j \in 1..Len(times.val) : times.val[j].k = "str"
     /\ \E i, j \in 1..Len(times.val) :
            i # j /\ IsRange(times.val[i]) /\ IsRange(times.val[j]))
        => /\ pc # "returned"
           /\ pc = "raised" => err \in {"IndexError", "ValueError"}

\* C13 as stated: a list of names, abbreviations, ints and range strings
\* in any order gives the mask of the union of what its elements stand
\* for, each element resolved on its own.
C13_AnyMix ==
    (/\ fn \in {"month", "day"} /\ times.iter /\ times.val # <<>>
     /\ \A j \in 1..Len(times.val) : Resolvable(times.val[j]))
        => /\ pc # "raised"
           /\ pc = "returned" => IsUnionMask

\* The lists for which the code does what C13 says: the ints alone, and
\* the names of one kind (all abbreviations or all full names) with at most
\* one range string of that kind among them.
C13_OneKind ==
    (/\ fn \in {"month", "day"} /\ times.iter /\ times.val # <<>>
     /\ \A j \in 1..Len(times.val) : Resolvable(times.val[j])
     /\ \/ \A j \in 1..Len(times.val) : times.val[j].k = "int"
        \/ \E c \in {1, 2} :
              /\ \A j \in 1..Len(times.val) :
                    /\ times.val[j].k = "str"
                    /\ conv_strs(Split(times.val[j].s, "-"), <<conv_codes[c]>>).err = ""
              /\ \A i, j \in 1..Len(times.val) :
                    (IsRange(times.val[i]) /\ IsRange(times.val[j])) => i = j)
        => /\ pc # "raised"
           /\ pc = "returned" => IsUnionMask

(***************************************************************************)
(* years_match, hour_match and datetime_match.  The argument (years,       *)
(* hours, dts) is held in times, and what the function binds it to (a list *)
(* of it, or itself) in times_list.                                        *)
(***************************************************************************)
\* isinstance(x, Iterable) of an argument: a list, or a str
IsIterable(x) == x.iter \/ x.val[1].k = "str"

\* The elements that iterating over an argument gives: those of a list, the
\* characters of a str.
Elements(x) ==
    IF x.iter THEN x.val
    ELSE [i \in 1..Len(x.val[1].s) |-> StrVal(<<x.val[1].s[i]>>)]

\* [x] if isinstance(x, cls) else x
ListIfIs(x, cls) == IF ~x.iter /\ x.val[1].k = cls THEN List(x.val) ELSE x

\* usable_int with any() in the place of all()
usable_int_any(years) ==
    IF IsIterable(years)
    THEN \E i \in 1..Len(Elements(years)) :
             Elements(years)[i].k \in {"int", "np.integer"}
    ELSE FALSE

\* filters.py:234-238: years is a list here if it was an int, so that an
\* argument that is not iterable is no int.
usable_int(years) ==
    IF IsIterable(years)
    THEN \A i \in 1..Len(Elements(years)) :
             Elements(years)[i].k \in {"int", "np.integer"}
    ELSE FALSE

\* filters.py:233-243
years_match ==
    /\ pc = "call"
    /\ fn = "years"
    /\ LET years == ListIfIs(times, "int") IN
       IF ~usable_int(years)
       THEN /\ pc' = "raised" /\ err' = "TypeError"
            /\ UNCHANGED times_list
       ELSE /\ times_list' = years
            /\ pc' = "is_in"
            /\ UNCHANGED err
    /\ UNCHANGED <<fn, data, times, caller_times, to_delete, to_append, tests, matches, idx,
                   notTimeMatch>>

\* filters.py:307-308
hour_match ==
    /\ pc = "call"
    /\ fn = "hour"
    /\ times_list' = ListIfIs(times, "int")
    /\ pc' = "is_in"
    /\ UNCHANGED <<fn, data, times, caller_times, to_delete, to_append, tests, matches, idx, err,
                   notTimeMatch>>

\* filters.py:425-429: an int is refused, and so is what holds one; what is
\* neither a datetime nor iterable raises TypeError when it is iterated.
datetime_match ==
    /\ pc = "call"
    /\ fn = "datetime"
    /\ LET dts == ListIfIs(times, "datetime") IN
       IF \/ ~IsIterable(dts)
          \/ \E i \in 1..Len(Elements(dts)) : Elements(dts)[i].k = "int"
       THEN /\ pc' = "raised" /\ err' = "TypeError"
            /\ UNCHANGED times_list
       ELSE /\ times_list' = dts
            /\ pc' = "is_in"
            /\ UNCHANGED err
    /\ UNCHANGED <<fn, data, times, caller_times, to_delete, to_append, tests, matches, idx,
                   notTimeMatch>>

NextMatch == years_match \/ hour_match \/ datetime_match \/ is_in

(***************************************************************************)
(* Calls of years_match, hour_match and datetime_match with one value or a *)
(* list of values of every type, on data that is empty or not.             *)
(***************************************************************************)
TypedValues ==
    {IntVal(1), IntVal(2), NpIntegerVal(1), FloatVal(One), StrVal(<<"a">>), DatetimeVal(1)}
TypedScalars == TypedValues \cup {StrVal(<<>>), StrVal(<<"1", "2">>)}

IntData == <<IntVal(1), IntVal(2), IntVal(1)>>
DatetimeData == <<DatetimeVal(1), DatetimeVal(2), DatetimeVal(1)>>

InitMatch ==
    \E f \in {"years", "hour", "datetime"} :
        InitTime(f, {<<>>, IF f = "datetime" THEN DatetimeData ELSE IntData},
                 {Scalar(t) : t \in TypedScalars} \cup ListsOf(TypedValues, MaxTimes))

SpecMatch == InitMatch /\ [][NextMatch]_vars

\* The mask of the data that are equal to one of the values given.
IsMembershipMask ==
    /\ Len(matches) = Len(data)
    /\ \A r \in 1..Len(data) :
          matches[r] <=> \E j \in 1..Len(times.val) : PyEq(data[r], times.val[j])

\* The call ends with a TypeError raised before any "v in items".
RaisesTypeErrorFirst ==
    /\ pc # "returned"
    /\ pc = "raised" => (err = "TypeError" /\ tests = 0)

ReturnsMembershipMask ==
    /\ pc # "raised"
    /\ pc = "returned" => IsMembershipMask

\* The argument is an int, or a list of ints only (numpy integers count).
IsIntOrInts ==
    \/ ~times.iter /\ times.val[1].k = "int"
    \/ times.iter /\ \A j \in 1..Len(times.val) : times.val[j].k \in {"int", "np.integer"}

\* The argument is an int, or a list that holds one.
IsIntOrHoldsInt ==
    \/ ~times.iter /\ times.val[1].k = "int"
    \/ times.iter /\ \E j \in 1..Len(times.val) : times.val[j].k = "int"

C15_HoursIntsOrTypeError ==
    (fn = "hour" /\ data # <<>> /\ (times.iter \/ times.val[1].k = "int")) =>
        IF IsIntOrInts THEN ReturnsMembershipMask
        ELSE /\ pc # "returned"
             /\ pc = "raised" => err = "TypeError"

\* What the code does: hours is never looked at.  A list of values of any
\* type gives the mask of the data equal to one of them.
C15_AnyListAccepted ==
    (fn = "hour" /\ (times.iter \/ times.val[1].k = "int")) => ReturnsMembershipMask

-----------------------------------------------------------------------------
\* generate_range (offsets.py).  A date is a record of the fields of a
\* datetime; the minute and the second are taken as part of the hour.

Date(y, m, d, h, us) ==
    [year |-> y, month |-> m, day |-> d, hour |-> h, microsecond |-> us]

NoDate == Date(0, 0, 0, 0, 0)

\* An offset of cftime_offsets: its class, its multiple n and, for the yearly
\* and quarterly classes, its month.
Offset(cls, n, month) == [cls |-> cls, n |-> n, month |-> month]

NoOffset == Offset("", 0, 0)

\* a < b and a <= b of two dates.
DateLess(a, b) ==
    LET ka == <<a.year, a.month, a.day, a.hour, a.microsecond>>
        kb == <<b.year, b.month, b.day, b.hour, b.microsecond>>
    IN \E i \in 1..5 : /\ ka[i] < kb[i]
                       /\ \A j \in 1..(i - 1) : ka[j] = kb[j]

DateLessEq(a, b) == a = b \/ DateLess(a, b)

\* The days of a month of the Gregorian calendar.
IsLeap(year) == year % 4 = 0 /\ (year % 100 # 0 \/ year % 400 = 0)

DaysInMonth(year, month) ==
    IF month = 2 THEN (IF IsLeap(year) THEN 29 ELSE 28)
    ELSE IF month \in {4, 6, 9, 11} THEN 30 ELSE 31

\* offsets.py:121-122 and 128: cls(*dt.timetuple()[:6]) keeps the year, the
\* month, the day and the time down to the second, and not the microsecond.
FromTimetuple(dt) == [dt EXCEPT !.microsecond = 0]

\* The day after and the day before a date, and date + timedelta(days=n).
NextDay(date) ==
    IF date.day < DaysInMonth(date.year, date.month)
    THEN [date EXCEPT !.day = date.day + 1]
    ELSE IF date.month < 12
         THEN [date EXCEPT !.month = date.month + 1, !.day = 1]
         ELSE [date EXCEPT !.year = date.year + 1, !.month = 1, !.day = 1]

PrevDay(date) ==
    IF date.day > 1
    THEN [date EXCEPT !.day = date.day - 1]
    ELSE IF date.month > 1
         THEN [date EXCEPT !.month = date.month - 1,
                           !.day = DaysInMonth(date.year, date.month - 1)]
         ELSE [date EXCEPT !.year = date.year - 1, !.month = 12, !.day = 31]

RECURSIVE AddDays(_, _)
AddDays(date, n) ==
    IF n = 0 THEN date
    ELSE IF n > 0 THEN AddDays(NextDay(date), n - 1)
    ELSE AddDays(PrevDay(date), n + 1)

\* cftime_offsets: the _day_option of a class and _get_day_of_month.
day_option(cls) ==
    IF cls \in {"YearBegin", "QuarterBegin", "MonthBegin"} THEN "start" ELSE "end"

get_day_of_month(other, option) ==
    IF option = "start" THEN 1 ELSE DaysInMonth(other.year, other.month)

\* cftime_offsets._shift_month: the date some months later, on the first or
\* the last day of its month, at the same time of day.
shift_month(date, months, option) ==
    LET sum == date.month + months
        month == IF sum % 12 = 0 THEN 12 ELSE sum % 12
        delta_year == IF sum % 12 = 0 THEN (sum \div 12) - 1 ELSE sum \div 12
        year == date.year + delta_year
    IN [date EXCEPT !.year = year, !.month = month,
                    !.day = IF option = "start" THEN 1 ELSE DaysInMonth(year, month)]

\* cftime_offsets._adjust_n_years, _adjust_n_months and roll_qtrday.
adjust_n_years(other, n, month, reference_day) ==
    IF n > 0
    THEN IF other.month < month \/ (other.month = month /\ other.day < reference_day)
         THEN n - 1 ELSE n
    ELSE IF other.month > month \/ (other.month = month /\ other.day > reference_day)
         THEN n + 1 ELSE n

adjust_n_months(other_day, n, reference_day) ==
    IF n > 0 /\ other_day < reference_day THEN n - 1
    ELSE IF n <= 0 /\ other_day > reference_day THEN n + 1
    ELSE n

roll_qtrday(other, n, month, option) ==
    LET months_since == (other.month % 3) - (month % 3)
        reference_day == get_day_of_month(other, option)
    IN IF n > 0
       THEN IF months_since < 0 \/ (months_since = 0 /\ other.day < reference_day)
            THEN n - 1 ELSE n
       ELSE IF months_since > 0 \/ (months_since = 0 /\ other.day > reference_day)
            THEN n + 1 ELSE n

\* other + off, the __apply__ of the class of the offset.
Apply(off, other) ==
    LET option == day_option(off.cls) IN
    CASE off.cls \in {"YearBegin", "YearEnd"} ->
           LET reference_day == get_day_of_month(other, option)
               years == adjust_n_years(other, off.n, off.month, reference_day)
               months == years * 12 + (off.month - other.month)
           IN shift_month(other, months, option)
      [] off.cls \in {"QuarterBegin", "QuarterEnd"} ->
           LET months_since == (other.month % 3) - (off.month % 3)
               qtrs == roll_qtrday(other, off.n, off.month, option)
               months == qtrs * 3 - months_since
           IN shift_month(other, months, option)
      [] off.cls \in {"MonthBegin", "MonthEnd"} ->
           LET reference_day == get_day_of_month(other, option)
               n == adjust_n_months(other.day, off.n, reference_day)
           IN shift_month(other, n, option)
      [] OTHER -> AddDays(other, off.n)

\* off * k, and the offset of one step that rollback and rollforward use.
Mul(off, k) == [off EXCEPT !.n = off.n * k]

OneStep(off) == [off EXCEPT !.n = 1]

\* onOffset: the date is one that the offset produces.  The time of day is
\* not looked at, and every date is on a Day offset.
onOffset(off, date) ==
    CASE off.cls \in {"YearBegin", "YearEnd"} ->
           /\ date.day = get_day_of_month(date, day_option(off.cls))
           /\ date.month = off.month
      [] off.cls \in {"QuarterBegin", "QuarterEnd"} ->
           /\ (date.month - off.month) % 3 = 0
           /\ date.day = get_day_of_month(date, day_option(off.cls))
      [] off.cls \in {"MonthBegin", "MonthEnd"} ->
           date.day = get_day_of_month(date, day_option(off.cls))
      [] OTHER -> Apply(Mul(off, -1), Apply(off, date)) = date

rollforward(off, date) ==
    IF onOffset(off, date) THEN date ELSE Apply(OneStep(off), date)

rollback(off, date) ==
    IF onOffset(off, date) THEN date ELSE Apply(Mul(OneStep(off), -1), date)

\* offsets.py:121-127: the two ends are converted and rolled outwards, and
\* cftime_range starts: it rolls the two ends inwards with the offset and,
\* were the end before the start, would take the date one step before the
\* start for the end.
generate_range ==
    /\ pc = "call"
    /\ offset # NoOffset
    /\ LET start_cf == FromTimetuple(start)
           end_cf == FromTimetuple(end)
           first == rollforward(offset, rollback(offset, start_cf))
           last == rollback(offset, rollforward(offset, end_cf))
       IN /\ current' = first
          /\ range_end' = IF DateLess(last, first)
                          THEN Apply(Mul(offset, -1), first)
                          ELSE last
    /\ dates' = <<>>
    /\ pc' = "generate"
    /\ UNCHANGED <<start, end, offset, err, notRange>>

\* The loop of cftime_range goes on: forwards for a multiple that is not
\* negative and backwards for a negative one.
InRange ==
    IF offset.n >= 0 THEN DateLessEq(current, range_end)
    ELSE DateLessEq(range_end, current)

\* One turn of the loop of cftime_range: the date is produced, and the next
\* one has to be past it.
generate_step ==
    /\ pc = "generate"
    /\ InRange
    /\ LET next_date == Apply(offset, current)
           stuck == IF offset.n >= 0 THEN DateLessEq(next_date, current)
                    ELSE DateLessEq(current, next_date)
       IN IF stuck
          THEN /\ pc' = "raised" /\ err' = "ValueError"
               /\ dates' = <<>>
               /\ UNCHANGED current
          ELSE /\ current' = next_date
               /\ dates' = Append(dates, current)
               /\ UNCHANGED <<pc, err>>
    /\ UNCHANGED <<start, end, offset, range_end, notRange>>

\* offsets.py:128: the loop is over and the dates are returned as date_cls.
generate_return ==
    /\ pc = "generate"
    /\ ~InRange
    /\ dates' = [i \in 1..Len(dates) |-> FromTimetuple(dates[i])]
    /\ pc' = "returned"
    /\ UNCHANGED <<start, end, offset, range_end, current, err, notRange>>

NextRange == generate_range \/ generate_step \/ generate_return

\* generate_range is called with any two dates of a few years, the start not
\* after the end, and any offset of a multiple from -1 to MaxN.  The year
\* 2000 is a leap year.
MaxN == 2
YearSpan == 2

RangeYears == 2000..(2000 + YearSpan)

RangeDates ==
    { Date(y, md[1], md[2], md[3], md[4]) :
        y \in RangeYears,
        md \in { <<1, 1, 0, 0>>, <<1, 1, 12, 0>>, <<2, 28, 0, 0>>, <<4, 1, 0, 0>>,
                 <<6, 3, 0, 0>>, <<12, 31, 0, 0>>, <<12, 31, 0, 1>> } }

RangeOffsets ==
    { Offset(c[1], n, c[2]) :
        c \in { <<"YearBegin", 1>>, <<"YearBegin", 4>>, <<"YearEnd", 12>>,
                <<"QuarterBegin", 1>>, <<"QuarterEnd", 12>>,
                <<"MonthBegin", 0>>, <<"MonthEnd", 0>>, <<"Day", 0>> },
        n \in (-1)..MaxN }

InitRange ==
    /\ start \in RangeDates
    /\ end \in RangeDates
    /\ DateLessEq(start, end)
    /\ offset \in RangeOffsets
    /\ offset.cls = "Day" => (end.year = start.year /\ end.month <= start.month + 1)
    /\ range_end = NoDate
    /\ current = NoDate
    /\ dates = <<>>
    /\ NoPatternCall
    /\ NoTimeCall
    /\ NoSeries
    /\ NoRun
    /\ matches = <<>>
    /\ idx = 0
    /\ pc = "call"
    /\ err = ""

SpecRange == InitRange /\ [][NextRange]_vars

\* The sequence of dates is strictly increasing, and each date is one step
\* of the offset after the one before it.
StrictlyIncreasing(ds) == \A i \in 1..(Len(ds) - 1) : DateLess(ds[i], ds[i + 1])

OneStepApart(ds) == \A i \in 1..(Len(ds) - 1) : ds[i + 1] = Apply(offset, ds[i])

\* No day after the day of a and up to the day of b is on the offset.  The
\* days on an offset of months are first or last days of a month; every day
\* is on an offset of days.
Midnight(date) == [date EXCEPT !.hour = 0, !.microsecond = 0]

NoneAlignedAfter(a, b) ==
    \A x \in { Date(y, m, d, 0, 0) : y \in (a.year)..(b.year), m \in 1..12, d \in {1, 28, 29, 30, 31} }
             \cup {Midnight(NextDay(a))} :
        ~ /\ x.day <= DaysInMonth(x.year, x.month)
          /\ onOffset(offset, x)
          /\ DateLess(Midnight(a), x)
          /\ DateLessEq(x, Midnight(b))

\* d is the date on the offset nearest to the date on or before it, and on
\* or after it.
NearestOnOrBefore(d, date) ==
    /\ onOffset(offset, d)
    /\ DateLessEq(d, date)
    /\ NoneAlignedAfter(d, date)

NearestOnOrAfter(d, date) ==
    /\ onOffset(offset, d)
    /\ DateLessEq(date, d)
    /\ onOffset(offset, date) => d = date
    /\ d = date \/ NoneAlignedAfter([date EXCEPT !.hour = d.hour,
                                                 !.microsecond = d.microsecond],
                                    PrevDay(d))

\* What C16 says of the dates that are returned.
CoversSpan ==
    /\ dates # <<>>
    /\ StrictlyIncreasing(dates)
    /\ NearestOnOrBefore(dates[1], start)
    /\ onOffset(offset, start) => dates[1] = start
    /\ NearestOnOrAfter(dates[Len(dates)], end)
    /\ OneStepApart(dates)

\* C16 as stated: for every start <= end and every offset that steps
\* forwards, generate_range returns a strictly increasing sequence of dates
\* one step apart, from the date on the offset nearest on or before start to
\* the one nearest on or after end.
C16_RangeCoversSpan ==
    (offset.n >= 1 /\ pc \in {"returned", "raised"}) =>
        (pc = "returned" /\ CoversSpan)

\* What the code returns: for an offset of one step and two dates of the same
\* time of day and of whole seconds the span is covered; for any offset that
\* steps forwards the sequence is not empty, starts on or before start and is
\* one step apart.
C16_OneStepCoversSpan ==
    (offset.n >= 1 /\ pc \in {"returned", "raised"}) =>
        /\ pc = "returned"
        /\ dates # <<>>
        /\ StrictlyIncreasing(dates)
        /\ OneStepApart(dates)
        /\ DateLessEq(dates[1], start)
        /\ (offset.n = 1 /\ start.hour = end.hour
              /\ start.microsecond = 0 /\ end.microsecond = 0) => CoversSpan

\* C17 as stated: generate_range fails with a ValueError whenever the offset
\* does not step forwards (a multiple of zero or a negative one), and never
\* returns for such an offset.
C17_NotIncreasingRaises ==
    (offset.cls # "" /\ offset.n <= 0 /\ pc \in {"returned", "raised"}) =>
        (pc = "raised" /\ err = "ValueError")

\* What the code does: an offset of zero steps fails with a ValueError; a
\* negative one returns, with no date at all or with start alone when start
\* is end to the second and is on the offset.
C17_ZeroRaisesNegativeReturns ==
    (offset.cls # "" /\ pc \in {"returned", "raised"}) =>
        /\ offset.n = 0 => (pc = "raised" /\ err = "ValueError")
        /\ offset.n < 0 =>
             /\ pc = "returned"
             /\ dates = IF FromTimetuple(start) = FromTimetuple(end)
                             /\ onOffset(offset, start)
                        THEN <<FromTimetuple(start)>> ELSE <<>>

-----------------------------------------------------------------------------
\* TimeSeries (scmdata.timeseries).  An object refers to a value buffer, a
\* time axis and an attribute mapping; the three are kept apart from the
\* objects so that two objects can be seen to share one.  Values are in
\* thousandths.

Thousand == 10 * 100

\* The units of the unit registry: the name that an error gives the unit,
\* the exponents of its dimensions [carbon] * [mass] and [time], and the
\* thousandths of the unit of its dimension that one of it is.  A series
\* with no unit is dimensionless.
ur(unit) ==
    CASE unit = "GtC / yr" ->
           [name |-> "gigatC / a", mass |-> 1, time |-> -1, factor |-> Thousand * Thousand]
      [] unit = "MtC / yr" ->
           [name |-> "megatC / a", mass |-> 1, time |-> -1, factor |-> Thousand]
      [] unit = "GtC / yr / yr" ->
           [name |-> "gigatC / a ** 2", mass |-> 1, time |-> -2, factor |-> Thousand * Thousand]
      [] OTHER ->
           [name |-> "dimensionless", mass |-> 0, time |-> 0, factor |-> Thousand]

dimensionality_of_mass(u) == <<u.mass>>

dimensionality(u) == <<u.mass, u.time>>

\* The data of a constructor call: a labelled array (xr.DataArray) has named
\* dimensions and coordinates, a list or an array has a number of dimensions.
Labelled(dims, vals, coords) ==
    [labelled |-> TRUE, ndim |-> Len(dims), dims |-> dims, values |-> vals,
     coords |-> coords]

NotLabelled(ndim, vals) ==
    [labelled |-> FALSE, ndim |-> ndim, dims |-> <<>>, values |-> vals, coords |-> <<>>]

NoData == NotLabelled(0, <<>>)

NoTime == [none |-> TRUE, val |-> <<>>]

Time(val) == [none |-> FALSE, val |-> val]

NoQuantity == [magnitude |-> 0, unit |-> ""]

Quantity(magnitude, unit) == [magnitude |-> magnitude, unit |-> unit]

Call(op, self, result, arg_data, arg_time, other, named) ==
    [op |-> op, self |-> self, result |-> result, data |-> arg_data, time |-> arg_time,
     other |-> other, named |-> named]

\* The only dimension of a labelled array has to be named time.
dims_any_case(dims) == Len(dims) = 1 /\ dims[1] \in {"time", "Time"}

dims_are_time(dims) == dims = <<"time">>

\* The error of a constructor call, "" when there is none.
init_error(arg_data, arg_time) ==
    IF arg_data.ndim # 1 THEN "ValueError"
    ELSE IF arg_data.labelled
         THEN IF ~arg_time.none THEN "TypeError"
              ELSE IF ~dims_are_time(arg_data.dims) THEN "ValueError"
              ELSE ""
         ELSE IF arg_time.none THEN "TypeError" ELSE ""

\* A new object that owns a buffer of the values, an axis of the times and a
\* mapping of the attributes: the heap after it is made.
Allocate(vals, times_, attrs, origin) ==
    [series |-> Append(series, [values |-> Len(buffers) + 1, time |-> Len(axes) + 1,
                                attrs |-> Len(mappings) + 1, copy_of |-> origin]),
     buffers |-> Append(buffers, vals),
     axes |-> Append(axes, times_),
     mappings |-> Append(mappings, attrs)]

Store(heap) ==
    /\ series' = heap.series
    /\ buffers' = heap.buffers
    /\ axes' = heap.axes
    /\ mappings' = heap.mappings

\* The values, the time axis and the attributes of an object.
ValuesOf(k) == buffers[series[k].values]
TimeOf(k) == axes[series[k].time]
AttrsOf(k) == mappings[series[k].attrs]

\* The bounds of the scenario: the objects that are made, and the largest
\* value that an addition gives.
MaxSeries == 2
MaxValue == 3

SeriesData ==
    { NotLabelled(1, <<Thousand>>),
      NotLabelled(2, <<Thousand, 2 * Thousand>>),
      Labelled(<<"time">>, <<Thousand>>, <<2000>>),
      Labelled(<<"times">>, <<Thousand>>, <<2000>>),
      Labelled(<<"Time">>, <<Thousand>>, <<2000>>),
      Labelled(<<"lat">>, <<Thousand>>, <<2000>>),
      Labelled(<<"time", "lat">>, <<Thousand, 2 * Thousand>>, <<2000>>) }

SeriesTimes == { NoTime, Time(<<2000>>) }

SeriesUnits == { "", "GtC / yr" }

\* TimeSeries(data, time, attrs={"unit": unit}).
TimeSeries ==
    /\ Len(series) < MaxSeries
    /\ \E arg_data \in SeriesData, arg_time \in SeriesTimes, unit \in SeriesUnits :
         LET error == init_error(arg_data, arg_time) IN
         IF error # ""
         THEN /\ pc' = "raised" /\ err' = error
              /\ call' = Call("init", 0, 0, arg_data, arg_time, NoQuantity, <<>>)
              /\ UNCHANGED <<series, buffers, axes, mappings>>
         ELSE /\ Store(Allocate(arg_data.values,
                                IF arg_data.labelled THEN arg_data.coords ELSE arg_time.val,
                                [unit |-> unit], 0))
              /\ pc' = "returned" /\ err' = ""
              /\ call' = Call("init", 0, Len(series) + 1, arg_data, arg_time, NoQuantity, <<>>)
    /\ UNCHANGED notSeries

\* The quantities that are added: 1 GtC / yr, the same as 1000 MtC / yr, 1
\* with no unit and 1 GtC / yr / yr.
SeriesQuantities ==
    { Quantity(Thousand, "GtC / yr"), Quantity(Thousand * Thousand, "MtC / yr"),
      Quantity(Thousand, ""), Quantity(Thousand, "GtC / yr / yr") }

\* The sum of the values of a series of a unit and a quantity: an error when
\* the dimensions of the two units differ, and otherwise the values plus the
\* quantity converted to the unit of the series.
Sum(vals, unit, other) ==
    LET own == ur(unit)
        others == ur(other.unit)
        converted == (other.magnitude * others.factor) \div own.factor
    IN IF dimensionality(own) # dimensionality(others)
       THEN [err |-> "DimensionalityError", named |-> <<own.name, others.name>>,
             values |-> vals]
       ELSE [err |-> "", named |-> <<>>,
             values |-> [i \in 1..Len(vals) |-> vals[i] + converted]]

InBounds(vals) == \A i \in 1..Len(vals) : vals[i] <= MaxValue * Thousand

\* ts + other: a new series of the sums, with an axis and a mapping of its own.
add ==
    \E k \in 1..Len(series), other \in SeriesQuantities :
       LET sum == Sum(ValuesOf(k), AttrsOf(k).unit, other) IN
       /\ IF sum.err # ""
          THEN /\ pc' = "raised" /\ err' = sum.err
               /\ call' = Call("add", k, 0, NoData, NoTime, other, sum.named)
               /\ UNCHANGED <<series, buffers, axes, mappings>>
          ELSE /\ Len(series) < MaxSeries
               /\ InBounds(sum.values)
               /\ Store(Allocate(sum.values, TimeOf(k), AttrsOf(k), 0))
               /\ pc' = "returned" /\ err' = ""
               /\ call' = Call("add", k, Len(series) + 1, NoData, NoTime, other, <<>>)
       /\ UNCHANGED notSeries

\* ts += other: the sums are written to the buffer of the series.
iadd ==
    \E k \in 1..Len(series), other \in SeriesQuantities :
       LET sum == Sum(ValuesOf(k), AttrsOf(k).unit, other) IN
       /\ IF sum.err # ""
          THEN /\ pc' = "raised" /\ err' = sum.err
               /\ call' = Call("iadd", k, 0, NoData, NoTime, other, sum.named)
               /\ UNCHANGED buffers
          ELSE /\ InBounds(sum.values)
               /\ buffers' = [buffers EXCEPT ![series[k].values] = sum.values]
               /\ pc' = "returned" /\ err' = ""
               /\ call' = Call("iadd", k, k, NoData, NoTime, other, <<>>)
       /\ UNCHANGED <<series, axes, mappings, notSeries>>

\* The heap after a copy of an object is made: the copy has a buffer, an axis
\* and a mapping of its own, with what the object has in its own.
CopyOfShared(k) ==
    [series |-> Append(series, [series[k] EXCEPT !.copy_of = k]),
     buffers |-> buffers, axes |-> axes, mappings |-> mappings]

CopyOf(k) == Allocate(ValuesOf(k), TimeOf(k), AttrsOf(k), k)

\* ts.copy()
copy ==
    /\ Len(series) < MaxSeries
    /\ \E k \in 1..Len(series) :
         /\ Store(CopyOf(k))
         /\ call' = Call("copy", k, Len(series) + 1, NoData, NoTime, NoQuantity, <<>>)
    /\ pc' = "returned" /\ err' = ""
    /\ UNCHANGED notSeries

\* ts.values[i] = 0: a value of the buffer of a series is overwritten.
set_value ==
    /\ \E k \in 1..Len(series) : \E i \in 1..Len(ValuesOf(k)) :
         /\ buffers' = [buffers EXCEPT ![series[k].values][i] = 0]
         /\ call' = Call("set_value", k, 0, NoData, NoTime, NoQuantity, <<>>)
    /\ pc' = "returned" /\ err' = ""
    /\ UNCHANGED <<series, axes, mappings, notSeries>>

\* ts.meta["unit"] = unit: an attribute of a series is overwritten.
set_attr ==
    /\ \E k \in 1..Len(series), unit \in SeriesUnits :
         /\ mappings' = [mappings EXCEPT ![series[k].attrs].unit = unit]
         /\ call' = Call("set_attr", k, 0, NoData, NoTime, NoQuantity, <<>>)
    /\ pc' = "returned" /\ err' = ""
    /\ UNCHANGED <<series, buffers, axes, notSeries>>

NextSeries == TimeSeries \/ add \/ iadd \/ copy \/ set_value \/ set_attr

InitSeries ==
    /\ NoSeries
    /\ NoRun
    /\ NoPatternCall
    /\ NoTimeCall
    /\ NoRangeCall
    /\ matches = <<>>
    /\ idx = 0
    /\ pc = "call"
    /\ err = ""

SpecSeries == InitSeries /\ [][NextSeries]_vars

\* Every object that is in the heap refers to things that are in the heap.
SeriesTypeOK ==
    \A k \in 1..Len(series) :
        /\ series[k].values \in 1..Len(buffers)
        /\ series[k].time \in 1..Len(axes)
        /\ series[k].attrs \in 1..Len(mappings)
        /\ Len(ValuesOf(k)) = Len(TimeOf(k))

\* The heap of objects is as it was.
NoObjectChanged == UNCHANGED <<series, buffers, axes, mappings>>

\* The errors that C18 names for a constructor call.
NamedInitErrors(arg_data, arg_time) ==
    (IF arg_data.ndim > 1 THEN {"ValueError"} ELSE {})
    \cup (IF arg_data.labelled /\ ~arg_time.none THEN {"TypeError"} ELSE {})
    \cup (IF arg_data.labelled /\ Len(arg_data.dims) = 1 /\ arg_data.dims[1] # "time"
          THEN {"ValueError"} ELSE {})
    \cup (IF ~arg_data.labelled /\ arg_time.none THEN {"TypeError"} ELSE {})

\* C18: a constructor call fails, with the error named for its case, and
\* makes no object when the data has more than one dimension (ValueError),
\* is labelled and comes with a time (TypeError), is labelled with an only
\* dimension not named exactly time (ValueError), or is not labelled and
\* comes with no time (TypeError).
C18_InitRejects ==
    [][(call'.op = "init" /\ NamedInitErrors(call'.data, call'.time) # {}) =>
          /\ pc' = "raised"
          /\ err' \in NamedInitErrors(call'.data, call'.time)
          /\ call'.result = 0
          /\ NoObjectChanged]_vars

\* A labelled array of the only dimension Time was refused with a ValueError
\* while an object made before is there as it was.
C18_Witness ==
    /\ call.op = "init" /\ call.data.labelled /\ call.data.dims = <<"Time">>
    /\ call.time.none
    /\ pc = "raised" /\ err = "ValueError"
    /\ Len(series) = 1 /\ ValuesOf(1) = <<Thousand>>

\* Two units are of different dimensions.
DifferentDimension(unit, other_unit) ==
    \/ ur(unit).mass # ur(other_unit).mass
    \/ ur(unit).time # ur(other_unit).time

\* C19: ts + q and ts += q, for a quantity q of a unit of another dimension
\* than the unit of the series (no unit being dimensionless), raise a
\* dimensionality error that names the two units and leave the values of the
\* series as they were.
C19_AddOtherDimensionRaises ==
    [][\A k \in 1..Len(series) :
          (/\ call'.op \in {"add", "iadd"}
           /\ call'.self = k
           /\ DifferentDimension(AttrsOf(k).unit, call'.other.unit)) =>
             /\ pc' = "raised"
             /\ err' = "DimensionalityError"
             /\ call'.named = <<ur(AttrsOf(k).unit).name, ur(call'.other.unit).name>>
             /\ NoObjectChanged]_vars

\* ts += 1 GtC / yr / yr on a series in GtC / yr was refused, the error names
\* the two units, and the series has the value it was made with.
C19_Witness ==
    /\ call.op = "iadd" /\ call.other = Quantity(Thousand, "GtC / yr / yr")
    /\ pc = "raised" /\ err = "DimensionalityError"
    /\ call.named = <<"gigatC / a", "gigatC / a ** 2">>
    /\ AttrsOf(call.self).unit = "GtC / yr"
    /\ ValuesOf(call.self) = <<Thousand>>

\* C20: a copy is an object of its own with a value buffer, a time axis and
\* an attribute mapping of its own, and no change of the values or of the
\* attributes of the copy changes those of the series it was copied from.
C20_CopyIsIndependent ==
    /\ [](\A c \in 1..Len(series) :
            series[c].copy_of # 0 =>
               LET o == series[c].copy_of IN
               /\ o # c
               /\ series[c].values # series[o].values
               /\ series[c].time # series[o].time
               /\ series[c].attrs # series[o].attrs)
    /\ [][\A c \in 1..Len(series) :
            (/\ series[c].copy_of # 0
             /\ call'.op \in {"iadd", "set_value", "set_attr"}
             /\ call'.self = c) =>
               LET o == series[c].copy_of IN
               /\ ValuesOf(o)' = ValuesOf(o)
               /\ TimeOf(o)' = TimeOf(o)
               /\ AttrsOf(o)' = AttrsOf(o)]_vars

\* A value of a copy was overwritten and its unit was changed, and the series
\* it was copied from has its value and its unit.
C20_Witness ==
    \E c \in 1..Len(series) :
        /\ series[c].copy_of # 0
        /\ call.op = "set_attr" /\ call.self = c
        /\ ValuesOf(c) = <<0>> /\ AttrsOf(c).unit = "GtC / yr"
        /\ ValuesOf(series[c].copy_of) = <<Thousand>>
        /\ AttrsOf(series[c].copy_of).unit = ""

-----------------------------------------------------------------------------
\* The list that the caller gave time_match.

\* C25 as stated: after a call of month_match or day_match, returned or
\* raised, the list that was given as times has the elements it had, in the
\* order they had.
C25_TimesUnchanged ==
    (fn \in {"month", "day"} /\ pc \in {"returned", "raised"}) => caller_times = times

\* What the code does: the list is as it was when it holds no str with a
\* "-"; the range strings that were scanned before an error are deleted from
\* it otherwise, and nothing is ever put into it.
C25_RangeStringsDeleted ==
    (fn \in {"month", "day"} /\ pc \in {"returned", "raised"}) =>
        /\ (\A i \in 1..Len(times.val) :
               times.val[i].k = "str" => Find(times.val[i].s, "-", 1) = 0)
              => caller_times = times
        /\ Len(caller_times.val) <= Len(times.val)
        /\ \A i \in 1..Len(caller_times.val) :
              \E j \in i..Len(times.val) : caller_times.val[i] = times.val[j]
        /\ (pc = "returned" /\ times.iter /\ times.val[1].k = "str") =>
              \A i \in 1..Len(caller_times.val) :
                  Find(caller_times.val[i].s, "-", 1) = 0

-----------------------------------------------------------------------------
\* processing.py.  A run is a sequence of rows, one for every timeseries:
\* its metadata and its values at the time columns of the run.

Row(variable, scenario, vals) ==
    [variable |-> variable, scenario |-> scenario, values |-> vals]

\* processing.py:17: timeseries > threshold.  A missing value is greater
\* than nothing.
at_or_above(v, limit) == v.k # "nan" /\ v.v >= limit

greater(v, limit) == v.k # "nan" /\ v.v > limit

get_ts_gt_threshold(run, limit) ==
    [r \in 1..Len(run) |->
        [t \in 1..Len(run[r].values) |-> greater(run[r].values[t], limit)]]

\* any(axis=1) of a row of booleans, and idxmax(axis=1): the first column
\* that holds the largest of them (the first column when none is True).
any_of_last(row) == row[Len(row)]

any(row) == \E t \in 1..Len(row) : row[t]

idxmax(row) ==
    LET largest == any(row) IN
    CHOOSE t \in 1..Len(row) : row[t] = largest /\ \A u \in 1..(t - 1) : row[u] # largest

\* processing.py:49-58
crossing_times(run, time, limit, return_year) ==
    LET timeseries_gt_threshold == get_ts_gt_threshold(run, limit) IN
    [r \in 1..Len(run) |->
        LET x == time[idxmax(timeseries_gt_threshold[r])] IN
        IF ~any(timeseries_gt_threshold[r])
        THEN [missing |-> TRUE, year |-> 0, time |-> NoDate]
        ELSE IF return_year
        THEN [missing |-> FALSE, year |-> x.year, time |-> NoDate]
        ELSE [missing |-> FALSE, year |-> 0, time |-> x]]

\* processing.py:61-66
assert_only_one_value(run) ==
    IF \E r, q \in 1..Len(run) : run[r].variable # run[q].variable
    THEN "ValueError" ELSE ""

\* The keys of the groups of a groupby of the rows by the columns other than
\* the one that is processed over, in their order.
group_keys(run) ==
    SelectSeq(<<"a", "b">>, LAMBDA g : \E r \in 1..Len(run) : run[r].scenario = g)

Count(S) == Cardinality(S)

\* processing.py:69-75: the number of True of every group over the number
\* of its members, for one column of booleans.
get_exceedance_fraction(run, column) ==
    LET keys == group_keys(run) IN
    [g \in 1..Len(keys) |->
        LET members == {r \in 1..Len(run) : run[r].scenario = keys[g]}
            number_exceeding == Count({r \in members : column[r]})
            number_members == Count(members)
        IN [group |-> keys[g],
            value |-> (number_exceeding * Scale) \div number_members]]

\* processing.py:137-140
exceedance_probabilities(run, limit) ==
    LET timeseries_gt_threshold == get_ts_gt_threshold(run, limit) IN
    get_exceedance_fraction(run, [r \in 1..Len(run) |-> any(timeseries_gt_threshold[r])])

\* processing.py:205-208: the same for every time column.
exceedance_probabilities_over_time(run, time, limit) ==
    LET timeseries_gt_threshold == get_ts_gt_threshold(run, limit) IN
    [t \in 1..Len(time) |->
        get_exceedance_fraction(run, [r \in 1..Len(run) |-> timeseries_gt_threshold[r][t]])]

Returned(name, value) ==
    /\ results' = [results EXCEPT !.called = @ \cup {name}, ![name] = value]
    /\ pc' = "returned"
    /\ err' = ""

Raised(name, error) ==
    /\ results' = [results EXCEPT !.called = @ \cup {name}]
    /\ pc' = "raised"
    /\ err' = error

\* processing.py:20-58
calculate_crossing_times ==
    /\ "crossing_times" \in DOMAIN results
    /\ "crossing_times" \notin results.called
    /\ \E return_year \in BOOLEAN :
         /\ Returned("crossing_times",
                     crossing_times(scmrun, call_args.time, call_args.threshold, return_year))
         /\ call_args' = [call_args EXCEPT !.return_year = return_year]
    /\ UNCHANGED <<scmrun, notRun>>

\* processing.py:94-149
calculate_exceedance_probabilities ==
    /\ "exceedance" \in DOMAIN results
    /\ "exceedance" \notin results.called
    /\ IF assert_only_one_value(scmrun) # ""
       THEN Raised("exceedance", assert_only_one_value(scmrun))
       ELSE Returned("exceedance", exceedance_probabilities(scmrun, call_args.threshold))
    /\ UNCHANGED <<scmrun, call_args, notRun>>

\* processing.py:152-217
calculate_exceedance_probabilities_over_time ==
    /\ "over_time" \in DOMAIN results
    /\ "over_time" \notin results.called
    /\ IF assert_only_one_value(scmrun) # ""
       THEN Raised("over_time", assert_only_one_value(scmrun))
       ELSE Returned("over_time",
                     exceedance_probabilities_over_time(scmrun, call_args.time,
                                                        call_args.threshold))
    /\ UNCHANGED <<scmrun, call_args, notRun>>

NextProcessing ==
    \/ calculate_crossing_times
    \/ calculate_exceedance_probabilities
    \/ calculate_exceedance_probabilities_over_time

\* The runs of at most MaxMembers timeseries of a variable T over two time
\* columns, each of a scenario a or b, with values below, at and above the
\* threshold 2 or missing; a timeseries of another variable may be there.
MaxMembers == 2

ProcessingTime == <<Date(2000, 7, 1, 0, 0), Date(2001, 1, 1, 0, 0)>>

ProcessingRows ==
    { Row("T", sc, <<FloatVal(v[1]), FloatVal(v[2])>>) :
        sc \in {"a", "b"}, v \in {One, Two, 3 * Scale} \X {One, Two, 3 * Scale} }
    \cup { Row("T", "a", <<NaN, FloatVal(3 * Scale)>>), Row("T", "b", <<NaN, NaN>>),
           Row("CO2", "a", <<FloatVal(3 * Scale), FloatVal(One)>>) }

InitProcessing ==
    /\ \E n \in 1..MaxMembers : scmrun \in [1..n -> ProcessingRows]
    /\ call_args = [threshold |-> Two, time |-> ProcessingTime, return_year |-> FALSE]
    /\ results = [called |-> {}, crossing_times |-> <<>>, exceedance |-> <<>>,
                  over_time |-> <<>>]
    /\ NoPatternCall
    /\ NoTimeCall
    /\ NoRangeCall
    /\ NoSeries
    /\ matches = <<>>
    /\ idx = 0
    /\ pc = "call"
    /\ err = ""

SpecProcessing == InitProcessing /\ [][NextProcessing]_vars

\* The time columns at which a row is strictly above the threshold.
ColumnsAbove(r) ==
    {t \in 1..Len(call_args.time) :
        scmrun[r].values[t].k # "nan" /\ scmrun[r].values[t].v > call_args.threshold}

Earliest(T) == CHOOSE t \in T : \A u \in T : t <= u

\* C22: calculate_crossing_times returns for every timeseries the earliest
\* time column (its year with return_year) at which the value is strictly
\* greater than the threshold, and a missing value, not the first time
\* column, for a timeseries that is never above it.
C22_EarliestCrossingOrMissing ==
    ("crossing_times" \in DOMAIN results /\ "crossing_times" \in results.called) =>
        /\ Len(results.crossing_times) = Len(scmrun)
        /\ \A r \in 1..Len(scmrun) :
             LET out == results.crossing_times[r] IN
             IF ColumnsAbove(r) = {}
             THEN out.missing /\ out.year = 0 /\ out.time = NoDate
             ELSE LET x == call_args.time[Earliest(ColumnsAbove(r))] IN
                  /\ ~out.missing
                  /\ IF call_args.return_year THEN out.year = x.year ELSE out.time = x

\* A timeseries at the threshold and then above it crosses at the second
\* column, one that is at the threshold and below it has no crossing time,
\* in one call that returned years.
C22_Witness ==
    /\ "crossing_times" \in DOMAIN results /\ "crossing_times" \in results.called
    /\ call_args.return_year
    /\ Len(scmrun) = 2
    /\ scmrun[1].values = <<FloatVal(Two), FloatVal(3 * Scale)>>
    /\ scmrun[2].values = <<FloatVal(Two), FloatVal(One)>>
    /\ results.crossing_times[1] = [missing |-> FALSE, year |-> 2001, time |-> NoDate]
    /\ results.crossing_times[2].missing

\* C23: for one run and one threshold, and for every group, the exceedance
\* probability at every time is at most the exceedance probability over all
\* time, and both are between 0 and 1.
C23_OverTimeAtMostOverall ==
    (/\ "exceedance" \in DOMAIN results
     /\ {"exceedance", "over_time"} \subseteq results.called
     /\ assert_only_one_value(scmrun) = "") =>
        /\ Len(results.exceedance) = Len(group_keys(scmrun))
        /\ \A g \in 1..Len(results.exceedance) :
             /\ results.exceedance[g].value \in 0..Scale
             /\ \A t \in 1..Len(call_args.time) :
                  /\ results.over_time[t][g].group = results.exceedance[g].group
                  /\ results.over_time[t][g].value \in 0..Scale
                  /\ results.over_time[t][g].value <= results.exceedance[g].value

\* Two members of one group are above the threshold at different times: the
\* probability is a half at each time and one over all time.
C23_Witness ==
    /\ "exceedance" \in DOMAIN results
    /\ {"exceedance", "over_time"} \subseteq results.called
    /\ Len(scmrun) = 2
    /\ scmrun[1] = Row("T", "a", <<FloatVal(3 * Scale), FloatVal(One)>>)
    /\ scmrun[2] = Row("T", "a", <<FloatVal(One), FloatVal(3 * Scale)>>)
    /\ results.exceedance = <<[group |-> "a", value |-> Scale]>>
    /\ \A t \in 1..2 : results.over_time[t] = <<[group |-> "a", value |-> Scale \div 2]>>

(***************************************************************************)
(* GroupBy and RunGroupBy (groupby.py)                                     *)
(***************************************************************************)
\* run.meta has the columns scenario and member; a row holds a str, an int
\* or a missing value (NaN) in each.
MetaColumns == {"scenario", "member"}
MetaRow(scenario, member) == [scenario |-> scenario, member |-> member]

\* groupby.py:24-26: na_fill_value.  Its default is -10000; the numbers here
\* are counted in millionths and end at 2147, so that the GroupBy of the
\* model is constructed with the na_fill_value -1000.
na_fill_value == IntVal(0 - 1000)

is_number(x) == x.k \in {"int", "float"}

\* The dtype that pandas gives a column: int64 for ints, float64 for ints
\* and missing values (and for missing values only), object for the rest.
column_dtype(run, c) ==
    IF \A r \in 1..Len(run) : run[r][c].k \in {"int", "nan"}
    THEN IF \E r \in 1..Len(run) : run[r][c].k = "nan" THEN "float" ELSE "int"
    ELSE "object"

\* The value that a column of that dtype holds for a row.
cell(run, c, r) ==
    IF run[r][c].k = "int" /\ column_dtype(run, c) = "float"
    THEN FloatVal(run[r][c].v) ELSE run[r][c]

\* groupby.py:29
any_number_dtype(run) == \E c \in MetaColumns : column_dtype(run, c) # "object"

\* groupby.py:30: (meta == na_fill_value).any(axis=None); a str equals no int.
conflicts(run) ==
    \E r \in 1..Len(run), c \in MetaColumns :
        is_number(cell(run, c, r)) /\ cell(run, c, r).v = na_fill_value.v

\* groupby.py:36: m.fillna(na_fill_value) for one value: a float in a
\* float64 column, the int that was given in an object column.
fillna(run, c, r) ==
    IF cell(run, c, r).k # "nan" THEN cell(run, c, r)
    ELSE IF column_dtype(run, c) = "float" THEN FloatVal(na_fill_value.v)
    ELSE na_fill_value

\* groupby.py:25-36: m, with the missing values filled when a column is
\* numeric.
frame(run) ==
    [r \in 1..Len(run) |->
        [c \in MetaColumns |->
            IF any_number_dtype(run) THEN fillna(run, c, r) ELSE cell(run, c, r)]]

key_of(m, r, by) == [i \in 1..Len(by) |-> m[r][by[i]]]

RECURSIVE keys_from(_, _, _, _)
keys_from(m, by, r, found) ==
    IF r > Len(m) THEN found
    ELSE LET key == key_of(m, r, by)
             dropped == \E i \in 1..Len(key) : key[i].k = "nan"
             known == \E j \in 1..Len(found) : found[j] = key
         IN  keys_from(m, by, r + 1, IF dropped \/ known THEN found ELSE Append(found, key))

\* groupby.py:38 and 51: the keys of m.groupby(list(groups)).groups, here
\* in the order of the rows; a row with a missing value in a group column is
\* in no group of pandas.
grouper_groups(m, by) == keys_from(m, by, 1, <<>>)

\* str() of a number that numpy makes a str of
np_str(x) ==
    IF IsStr(x) THEN x.s
    ELSE IF x.v < 0 THEN <<"-">> \o Str([x EXCEPT !.v = 0 - x.v])
    ELSE Str(x)

\* groupby.py:52: np.atleast_1d(indices): one array dtype for the whole key,
\* str if a value is a str, else float if a value is a float.
atleast_1d(key) ==
    IF Len(key) = 1 THEN key
    ELSE IF \E i \in 1..Len(key) : IsStr(key[i])
    THEN [i \in 1..Len(key) |-> StrVal(np_str(key[i]))]
    ELSE IF \E i \in 1..Len(key) : key[i].k = "float"
    THEN [i \in 1..Len(key) |-> IF key[i].k = "int" THEN FloatVal(key[i].v) ELSE key[i]]
    ELSE key

\* float(s) of a str: a sign, digits, and a point and at most six digits;
\* anything else of these strings raises ValueError.  [err, v], v in
\* millionths.
PyFloat(s) ==
    LET dots == {k \in 1..Len(s) : s[k] = "."}
        dot == IF dots = {} THEN Len(s) + 1 ELSE CHOOSE k \in dots : \A j \in dots : k <= j
        whole == PyInt(SubSeq(s, 1, dot - 1))
        frac == SubSeq(s, dot + 1, Len(s))
        padded == frac \o [i \in 1..(6 - Len(frac)) |-> "0"]
    IN  IF \/ Cardinality(dots) > 1
           \/ whole.err # ""
           \/ Len(frac) > 6
           \/ \E k \in 1..Len(frac) : ~IsDigit(frac[k])
        THEN [err |-> "ValueError", v |-> 0]
        ELSE [err |-> "",
              v |-> IF s[1] = "-" THEN whole.n * Scale - DigitsValue(padded, 0)
                    ELSE whole.n * Scale + DigitsValue(padded, 0)]

\* groupby.py:43: float(v) == float(self.na_fill_value), f being float(v)
is_fill_value(f) == f.err = "" /\ f.v = na_fill_value.v

\* groupby.py:41-49
try_fill_value(v) ==
    IF IsStr(v) THEN (IF is_fill_value(PyFloat(v.s)) THEN NaN ELSE v)
    ELSE IF v.k # "nan" /\ v.v = na_fill_value.v THEN NaN ELSE v

RECURSIVE categories_from(_, _, _, _)
categories_from(run, c, r, found) ==
    IF r > Len(run) THEN found
    ELSE LET x == cell(run, c, r)
             known == \E j \in 1..Len(found) : found[j] = x
         IN  categories_from(run, c, r + 1,
                             IF x.k = "nan" \/ known THEN found ELSE Append(found, x))

\* The categorical column of run.meta that filter hands to pattern_match.
meta_column(run, c) ==
    LET cats == categories_from(run, c, 1, <<>>) IN
    [dtype |-> IF column_dtype(run, c) = "object" THEN "str" ELSE column_dtype(run, c),
     categories |-> cats,
     codes |-> [r \in 1..Len(run) |->
                  IF cell(run, c, r).k = "nan" THEN -1
                  ELSE (CHOOSE j \in 1..Len(cats) : cats[j] = cell(run, c, r)) - 1]]

\* The rows that every pass selects, and the error of a pass that raised.
selected(passes) ==
    LET failed == {i \in 1..Len(passes) : passes[i].err # ""} IN
    [err |-> IF failed = {} THEN "" ELSE passes[CHOOSE i \in failed : TRUE].err,
     rows |-> {r \in 1..Len(passes[1].mask) : \A i \in 1..Len(passes) : passes[i].mask[r]}]

\* run.filter(**{k: v}): the rows that pattern_match selects in every named
\* column, with the defaults level = None and regexp = False.
filter(run, by, key) ==
    selected([i \in 1..Len(by) |->
                 Pass(meta_column(run, by[i]), key[i], NoLevel, FALSE, HIERARCHY_SEPARATOR)])

\* groupby.py:69-72 and 24-38: RunGroupBy(run, groups)
RunGroupBy ==
    /\ pc = "call"
    /\ "groups" \in DOMAIN results
    /\ IF any_number_dtype(scmrun) /\ conflicts(scmrun)
       THEN /\ pc' = "raised"
            /\ err' = "ValueError"
            /\ UNCHANGED results
       ELSE /\ pc' = "grouped"
            /\ err' = ""
            /\ results' = [results EXCEPT
                             !.groups = grouper_groups(frame(scmrun), call_args.groups)]
    /\ UNCHANGED <<scmrun, call_args, notRun>>

\* groupby.py:58-61: the assertion and the yield of the sub-run res
yield(indices, res) ==
    IF res.err # ""
    THEN /\ pc' = "raised"
         /\ err' = res.err
         /\ results' = [results EXCEPT !.keys = Append(@, indices)]
    ELSE IF res.rows = {}
    THEN /\ pc' = "raised"
         /\ err' = "AssertionError"
         /\ results' = [results EXCEPT !.keys = Append(@, indices)]
    ELSE /\ UNCHANGED <<pc, err>>
         /\ results' = [results EXCEPT !.keys = Append(@, indices),
                                       !.yielded = Append(@, res.rows)]

\* groupby.py:57
filter_group(indices) == yield(indices, filter(scmrun, call_args.groups, indices))

\* groupby.py:53
fill_values(group) == [i \in 1..Len(group) |-> try_fill_value(group[i])]

\* groupby.py:51-61: one pass of the loop of _iter_grouped
iter_grouped ==
    /\ pc = "grouped"
    /\ Len(results.keys) < Len(results.groups)
    /\ filter_group(fill_values(atleast_1d(results.groups[Len(results.keys) + 1])))
    /\ UNCHANGED <<scmrun, call_args, notRun>>

\* groupby.py:51: there is no group left
iter_exhausted ==
    /\ pc = "grouped"
    /\ Len(results.keys) = Len(results.groups)
    /\ pc' = "returned"
    /\ UNCHANGED <<err, runVars, notRun>>

NextGroupBy == RunGroupBy \/ iter_grouped \/ iter_exhausted

\* The runs of at most MaxRows rows: a scenario that is a name, a name with
\* a star in it, the digits of the sentinel or missing, and a member that is
\* a number, the sentinel or missing in every row, or a str in every row.
MaxRows == 2

\* The str that float() reads as na_fill_value.
Sentinel == <<"-", "1", "0", "0", "0">>

GroupByScenarios ==
    {StrVal(<<"a">>), StrVal(<<"a", "b">>), StrVal(<<"a", "*">>), StrVal(Sentinel), NaN}

GroupByNumbers == {IntVal(1), na_fill_value, NaN}
GroupByNames == {StrVal(<<"x">>)}

GroupByRuns ==
    UNION {[1..n -> {MetaRow(s, x) : s \in GroupByScenarios, x \in GroupByNumbers}]
           \cup [1..n -> {MetaRow(s, x) : s \in GroupByScenarios, x \in GroupByNames}]
             : n \in 1..MaxRows}

InitGroupBy ==
    /\ scmrun \in GroupByRuns
    /\ \E by \in {<<"scenario">>, <<"member">>, <<"scenario", "member">>} :
         call_args = [groups |-> by]
    /\ results = [groups |-> <<>>, keys |-> <<>>, yielded |-> <<>>]
    /\ NoPatternCall
    /\ NoTimeCall
    /\ NoRangeCall
    /\ NoSeries
    /\ matches = <<>>
    /\ idx = 0
    /\ pc = "call"
    /\ err = ""

SpecGroupBy == InitGroupBy /\ [][NextGroupBy]_vars

\* The values of the group columns of a row, as the run holds them.
GroupKey(r) == [i \in 1..Len(call_args.groups) |-> scmrun[r][call_args.groups[i]]]

\* The rows of the group that pandas made for the j-th key.
RowsOfGroup(j) ==
    {r \in 1..Len(scmrun) : key_of(frame(scmrun), r, call_args.groups) = results.groups[j]}

SentinelInMeta ==
    \E r \in 1..Len(scmrun), c \in MetaColumns :
        is_number(scmrun[r][c]) /\ scmrun[r][c].v = na_fill_value.v

\* The construction raises ValueError whenever the number na_fill_value is a
\* value of the metadata.
C24_SentinelNumberRaises ==
    (pc # "call" /\ SentinelInMeta) => (pc = "raised" /\ err = "ValueError")

\* The key that _iter_grouped hands to filter is missing only for a group
\* whose rows have a missing value in that group column.
NaNKeyWasMissing ==
    \A j \in 1..Len(results.keys), i \in 1..Len(call_args.groups) :
        results.keys[j][i].k = "nan" =>
            \A r \in RowsOfGroup(j) : scmrun[r][call_args.groups[i]].k = "nan"

\* C24: GroupBy never takes a value of the metadata for the sentinel of a
\* missing value: the construction raises ValueError whenever na_fill_value
\* is a value of the metadata, and _iter_grouped makes a missing value of a
\* group key only if that key was missing in the metadata.
C24_SentinelNeverConfused ==
    "groups" \in DOMAIN results => (C24_SentinelNumberRaises /\ NaNKeyWasMissing)

\* C26: iterating a RunGroupBy partitions the run: one sub-run that is not
\* empty for every combination of values of the group columns (a missing
\* value is a value), every row in exactly one sub-run, every sub-run the
\* rows that have the values of its key, and no Empty group assertion.
C26_IterationPartitions ==
    "groups" \in DOMAIN results =>
        /\ ~(pc = "raised" /\ err = "AssertionError")
        /\ pc = "returned" =>
             /\ Len(results.yielded) = Cardinality({GroupKey(r) : r \in 1..Len(scmrun)})
             /\ \A j \in 1..Len(results.yielded) :
                  \E r \in results.yielded[j] :
                      results.yielded[j] = {q \in 1..Len(scmrun) : GroupKey(q) = GroupKey(r)}
             /\ \A r \in 1..Len(scmrun) :
                  Cardinality({j \in 1..Len(results.yielded) : r \in results.yielded[j]}) = 1

\* No scenario has a star or is the digits of the sentinel, and a missing
\* value comes with a numeric column.
PlainMeta ==
    /\ \A r \in 1..Len(scmrun) :
         scmrun[r].scenario \notin {StrVal(<<"a", "*">>), StrVal(Sentinel)}
    /\ (\E r \in 1..Len(scmrun), c \in MetaColumns : scmrun[r][c].k = "nan") =>
           any_number_dtype(scmrun)

\* On such metadata the iteration is a partition of the run.
C26_PlainMetaPartitions ==
    ("groups" \in DOMAIN results /\ PlainMeta) => C26_IterationPartitions

(***************************************************************************)
(* categorisation_sr15 (processing.py)                                     *)
(***************************************************************************)
\* A timeseries of a run in kelvin: the value of scenario is its index
\* entry, quantile is counted in hundredths, and the time columns are the
\* years of CategorisationYears.
QuantileRow(variable, scenario, quantile, vals) ==
    [variable |-> variable, scenario |-> scenario, quantile |-> quantile, values |-> vals]

\* processing.py:250: timeseries().max(axis=1), which skips the missing
\* values and is missing when every value is.
max(vals) ==
    LET present == {t \in 1..Len(vals) : vals[t].k # "nan"} IN
    IF present = {} THEN NaN
    ELSE vals[CHOOSE t \in present : \A u \in present : vals[u].v <= vals[t].v]

\* processing.py:336: the index of categories, scmrun.meta[index] without
\* its duplicates
index_entries(run) ==
    SelectSeq(<<"a", "b", "c", "d">>, LAMBDA s : \E r \in 1..Len(run) : run[r].scenario = s)

\* processing.py:232-253 and 340-344: _get_comp_series(calculate_peak(
\* scmrun.filter(quantile=quantile))), or the same of the columns of one
\* year, for an index entry; missing if the filter leaves no timeseries of it.
calculate_peak(run, entry, quantile, years) ==
    LET rows == {r \in 1..Len(run) : run[r].scenario = entry /\ run[r].quantile = quantile}
        r == CHOOSE r \in rows : TRUE
    IN  IF rows = {} THEN NaN
        ELSE max(SelectSeq([t \in 1..Len(years) |->
                               IF years[t] THEN run[r].values[t] ELSE StrVal(<<>>)],
                           LAMBDA x : ~IsStr(x)))

\* <= of pandas with the limit left out: less than, not equal.
below(v, limit) == v.k # "nan" /\ v.v < limit

\* processing.py:350: series <= limit.  A missing value is at most nothing.
at_most(v, limit) == v.k # "nan" /\ v.v <= limit

\* categories[mask] = name
assign(cats, mask, name) ==
    [e \in 1..Len(cats) |-> IF mask[e] THEN [cats[e] EXCEPT !.category = name] ELSE cats[e]]

\* processing.py:334-356: the categories, "" for one that is still null
categories_of(run, time) ==
    LET entries == index_entries(run)
        E == 1..Len(entries)
        all == [t \in 1..Len(time) |-> TRUE]
        y2100 == [t \in 1..Len(time) |-> time[t] = 2100]
        peak_median == [e \in E |-> calculate_peak(run, entries[e], 50, all)]
        peak_p33 == [e \in E |-> calculate_peak(run, entries[e], 33, all)]
        peak_p66 == [e \in E |-> calculate_peak(run, entries[e], 66, all)]
        end_of_century_median == [e \in E |-> calculate_peak(run, entries[e], 50, y2100)]
        empty == [e \in E |-> [index |-> entries[e], category |-> ""]]
        above == assign(empty, [e \in E |-> greater(peak_median[e], Two)], "Above 2C")
        under == assign(above, [e \in E |-> at_most(peak_median[e], OneAndAHalf)],
                        "Below 1.5C")
        overshoot_15 == [e \in E |-> /\ greater(peak_median[e], OneAndAHalf)
                                      /\ at_most(end_of_century_median[e], OneAndAHalf)]
        low == assign(under, [e \in E |-> overshoot_15[e] /\ at_most(peak_p33[e], OneAndAHalf)],
                      "1.5C low overshoot")
        high == assign(low, [e \in E |-> overshoot_15[e] /\ greater(peak_p33[e], OneAndAHalf)],
                       "1.5C high overshoot")
        still_uncategorised == [e \in E |-> high[e].category = ""]
        peak_p66_lte_2 == [e \in E |-> at_most(peak_p66[e], Two)]
        higher == assign(high, [e \in E |-> /\ still_uncategorised[e]
                                            /\ at_most(peak_median[e], Two)
                                            /\ ~peak_p66_lte_2[e]], "Higher 2C")
    IN  assign(higher, [e \in E |-> still_uncategorised[e] /\ peak_p66_lte_2[e]], "Lower 2C")

\* processing.py:290-360
categorisation_sr15 ==
    /\ "categories" \in DOMAIN results
    /\ "categories" \notin results.called
    /\ LET categories == categories_of(scmrun, call_args.time) IN
       IF assert_only_one_value(scmrun) # ""
       THEN Raised("categories", assert_only_one_value(scmrun))
       ELSE IF \E e \in 1..Len(categories) : categories[e].category = ""
       THEN Raised("categories", "AssertionError")
       ELSE Returned("categories", categories)
    /\ UNCHANGED <<scmrun, call_args, notRun>>

NextCategorisation == categorisation_sr15

\* The runs of at most MaxEntries index entries, each with a timeseries of
\* the quantiles 0.33, 0.5 and 0.66 over the years 2050 and 2100: the values
\* are at and around 1.5 and 2.0, the median may have no value in 2100, and
\* one run more has a second variable.
MaxEntries == 1

Kelvin(hundredths) == FloatVal(hundredths * (Scale \div 100))

CategorisationYears == <<2050, 2100>>

MedianRows(s) ==
    {QuantileRow("T", s, 50, <<Kelvin(x), y>>) :
        x \in {150, 175, 200, 250}, y \in {Kelvin(150), Kelvin(175), Kelvin(250), NaN}}

P33Rows(s) ==
    {QuantileRow("T", s, 33, <<Kelvin(100), Kelvin(x)>>) : x \in {100, 150, 175}}

P66Rows(s) ==
    {QuantileRow("T", s, 66, <<Kelvin(x), Kelvin(100)>>) : x \in {175, 200, 250}}

EntryRows(s) ==
    {<<m, lo, hi>> : m \in MedianRows(s), lo \in P33Rows(s), hi \in P66Rows(s)}

RECURSIVE CategorisationRuns(_)
CategorisationRuns(n) ==
    IF n = 0 THEN {<<>>}
    ELSE {run \o rows : run \in CategorisationRuns(n - 1),
                        rows \in EntryRows(<<"a", "b", "c", "d">>[n])}

TwoVariables ==
    <<QuantileRow("T", "a", 50, <<Kelvin(100), Kelvin(100)>>),
      QuantileRow("CO2", "a", 50, <<Kelvin(100), Kelvin(100)>>)>>

InitCategorisation ==
    /\ scmrun \in {TwoVariables} \cup UNION {CategorisationRuns(n) : n \in 1..MaxEntries}
    /\ call_args = [time |-> CategorisationYears]
    /\ results = [called |-> {}, categories |-> <<>>]
    /\ NoPatternCall
    /\ NoTimeCall
    /\ NoRangeCall
    /\ NoSeries
    /\ matches = <<>>
    /\ idx = 0
    /\ pc = "call"
    /\ err = ""

SpecCategorisation == InitCategorisation /\ [][NextCategorisation]_vars

\* The rows of an index entry of the quantile, and the largest of their
\* values in the time columns T.
ValuesIn(entry, quantile, T) ==
    LET cells == {c \in (1..Len(scmrun)) \X T :
                     /\ scmrun[c[1]].scenario = entry
                     /\ scmrun[c[1]].quantile = quantile
                     /\ scmrun[c[1]].values[c[2]].k # "nan"}
    IN  {scmrun[c[1]].values[c[2]].v : c \in cells}

Largest(S) == CHOOSE x \in S : \A y \in S : y <= x

PeaksPresent(entry) ==
    \A q \in {33, 50, 66} : ValuesIn(entry, q, 1..Len(call_args.time)) # {}

\* The category that the rules give an index entry.
CategoryByRules(entry) ==
    LET all == 1..Len(call_args.time)
        median == Largest(ValuesIn(entry, 50, all))
        p33 == Largest(ValuesIn(entry, 33, all))
        p66 == Largest(ValuesIn(entry, 66, all))
        in2100 == ValuesIn(entry, 50, {t \in all : call_args.time[t] = 2100})
    IN  IF median <= OneAndAHalf THEN "Below 1.5C"
        ELSE IF in2100 # {} /\ Largest(in2100) <= OneAndAHalf
        THEN IF p33 <= OneAndAHalf THEN "1.5C low overshoot" ELSE "1.5C high overshoot"
        ELSE IF median > Two THEN "Above 2C"
        ELSE IF p66 <= Two THEN "Lower 2C"
        ELSE "Higher 2C"

\* C28: categorisation_sr15 gives every index entry whose peaks of the
\* quantiles 0.33, 0.5 and 0.66 are there exactly one category, the one of
\* the rules (Below 1.5C; 1.5C low or high overshoot; Above 2C; Lower 2C;
\* Higher 2C), and the Unclassified results? assertion does not fire.
C28_OneCategoryByRules ==
    ("categories" \in DOMAIN results /\ "categories" \in results.called
        /\ assert_only_one_value(scmrun) = ""
        /\ \A r \in 1..Len(scmrun) : PeaksPresent(scmrun[r].scenario)) =>
        /\ pc = "returned"
        /\ Len(results.categories) = Len(index_entries(scmrun))
        /\ \A e \in 1..Len(results.categories) :
             /\ results.categories[e].index = index_entries(scmrun)[e]
             /\ results.categories[e].category = CategoryByRules(results.categories[e].index)

\* A median that peaks at 2.5 and is at 1.5 in 2100, with a 0.33 peak above
\* 1.5, is a high overshoot and not Above 2C.
C28_Witness ==
    /\ "categories" \in DOMAIN results /\ "categories" \in results.called
    /\ Len(scmrun) = 3
    /\ scmrun[1].values = <<Kelvin(250), Kelvin(150)>>
    /\ scmrun[2].values = <<Kelvin(100), Kelvin(175)>>
    /\ results.categories = <<[index |-> "a", category |-> "1.5C high overshoot"]>>

(***************************************************************************)
(* TimeSeries.interpolate with linear interpolation, on a yearly axis      *)
(***************************************************************************)
\* A point of the source: the first of January of a year and a whole
\* number, or a missing value (NaN).
Point(year, v) == [year |-> year, missing |-> FALSE, v |-> v]
MissingPoint(year) == [year |-> year, missing |-> TRUE, v |-> 0]

Calendars == {"standard", "noleap", "360_day"}

\* The days of a year in a calendar.
days_in_year(cal, year) ==
    IF cal = "360_day" THEN 360
    ELSE IF cal = "standard" /\ IsLeap(year) THEN 366
    ELSE 365

RECURSIVE days_between(_, _, _)
\* The calendar distance in days from the first of January of the year
\* first to that of the year last; it is negative if last comes first.  The
\* seconds that the arithmetic is done in are 86400 times as many.
days_between(cal, first, last) ==
    IF first = last THEN 0
    ELSE IF first < last
    THEN days_between(cal, first, last - 1) + days_in_year(cal, last - 1)
    ELSE 0 - days_between(cal, last, first)

\* The points that the fit uses: the missing ones are left out.
fit_points(source) == SelectSeq(source, LAMBDA p : ~p.missing)

\* A value as a fraction num / den with den > 0, or a missing value.
Fraction(num, den) == [missing |-> FALSE, num |-> num, den |-> den]
NoValue == [missing |-> TRUE, num |-> 0, den |-> 1]

\* The line through the points p and q at the year: the value of p plus the
\* slope from p to q times the distance from p, in days.
line(cal, p, q, year) ==
    Fraction(p.v * days_between(cal, p.year, q.year)
                 + (q.v - p.v) * days_between(cal, p.year, year),
             days_between(cal, p.year, q.year))

\* extrapolation_type = "constant": the value of the boundary point q.
constant(cal, p, q, year) == Fraction(q.v, 1)

\* extrapolation_type = "linear": the line of the boundary segment, of
\* which q is the boundary point.
linear(cal, p, q, year) ==
    IF p.year < q.year THEN line(cal, p, q, year) ELSE line(cal, q, p, year)

\* The value at a target year: of the segment of the fit that the year is
\* in, of the extrapolation outside the fit, missing with less than two
\* points to fit; [err, value].
interpolated(cal, source, year, extrapolation_type) ==
    LET pts == fit_points(source)
        n == Len(pts)
    IN  IF n < 2 THEN [err |-> "", value |-> NoValue]
        ELSE IF year < pts[1].year \/ year > pts[n].year
        THEN LET p == IF year < pts[1].year THEN pts[2] ELSE pts[n - 1]
                 q == IF year < pts[1].year THEN pts[1] ELSE pts[n]
             IN  IF extrapolation_type = "linear"
                 THEN [err |-> "", value |-> linear(cal, p, q, year)]
                 ELSE IF extrapolation_type = "constant"
                 THEN [err |-> "", value |-> constant(cal, p, q, year)]
                 ELSE [err |-> "InsufficientDataError", value |-> NoValue]
        ELSE LET i == CHOOSE i \in 1..(n - 1) : pts[i].year <= year /\ year <= pts[i + 1].year
             IN  [err |-> "", value |-> line(cal, pts[i], pts[i + 1], year)]

\* ts.interpolate(target, extrapolation_type=...): the values of a new
\* TimeSeries over target; the source is left as it is.
interpolate ==
    /\ "interpolated" \in DOMAIN results
    /\ "interpolated" \notin results.called
    /\ \E extrapolation_type \in {"linear", "constant", "None"} :
         LET out == [t \in 1..Len(call_args.target) |->
                        interpolated(call_args.calendar, scmrun, call_args.target[t],
                                     extrapolation_type)]
         IN  /\ call_args' = [call_args EXCEPT !.extrapolation_type = extrapolation_type]
             /\ IF \E t \in 1..Len(out) : out[t].err # ""
                THEN Raised("interpolated", "InsufficientDataError")
                ELSE Returned("interpolated", [t \in 1..Len(out) |-> out[t].value])
    /\ UNCHANGED <<scmrun, notRun>>

NextInterpolate == interpolate

\* The sources of two to MaxSource yearly points from one of four years on,
\* each a whole number from 0 to 3 or missing, in every calendar; the target
\* is the years of the source and the MaxAhead years before and after them.
MaxSource == 3
MaxAhead == 2

InterpolateValues == 0..3

FirstYears == 2001..2004

Years(first, n) == [i \in 1..n |-> first + i - 1]

Sources(first, n) ==
    {[i \in 1..n |-> IF vs[i] = -1 THEN MissingPoint(first + i - 1)
                     ELSE Point(first + i - 1, vs[i])] :
        vs \in [1..n -> InterpolateValues \cup {-1}]}

InitInterpolate ==
    /\ \E first \in FirstYears, n \in 2..MaxSource, cal \in Calendars :
         /\ scmrun \in Sources(first, n)
         /\ call_args = [calendar |-> cal,
                         target |-> Years(first - MaxAhead, n + 2 * MaxAhead),
                         extrapolation_type |-> "linear"]
    /\ results = [called |-> {}, interpolated |-> <<>>]
    /\ NoPatternCall
    /\ NoTimeCall
    /\ NoRangeCall
    /\ NoSeries
    /\ matches = <<>>
    /\ idx = 0
    /\ pc = "call"
    /\ err = ""

SpecInterpolate == InitInterpolate /\ [][NextInterpolate]_vars

\* The source is an arithmetic progression: its values that are not missing
\* are first + step * (year - the first of these years), and there are two
\* of them at least.
Progression(step) ==
    LET pts == fit_points(scmrun) IN
    /\ Len(pts) >= 2
    /\ \A i \in 1..Len(pts) : pts[i].v = pts[1].v + step * (pts[i].year - pts[1].year)

ProgressionAt(step, year) ==
    fit_points(scmrun)[1].v + step * (year - fit_points(scmrun)[1].year)

Steps == (0 - 3)..3

\* The target years outside the years of the fit.
Beyond ==
    LET pts == fit_points(scmrun) IN
    {t \in 1..Len(call_args.target) :
        call_args.target[t] < pts[1].year \/ call_args.target[t] > pts[Len(pts)].year}

\* How many years a target year is from the boundary of the fit.
YearsBeyond(year) ==
    LET pts == fit_points(scmrun) IN
    IF year < pts[1].year THEN pts[1].year - year ELSE year - pts[Len(pts)].year

LinearCall ==
    /\ "interpolated" \in DOMAIN results
    /\ "interpolated" \in results.called
    /\ call_args.extrapolation_type = "linear"

YearsOfOneLength(year) ==
    LET pts == fit_points(scmrun)
        from == IF year < pts[1].year THEN year ELSE pts[Len(pts) - 1].year
        to == IF year < pts[1].year THEN pts[2].year ELSE year
    IN  \A a, b \in from..(to - 1) :
            days_in_year(call_args.calendar, a) = days_in_year(call_args.calendar, b)

=============================================================================
